---- MODULE Spec2Model ----
(***************************************************************************)
(* Maze-snake game for the Sega Mega Drive (src/src/main.c, lines 1-709):  *)
(* the frame loop of main, the input handler, the simulation tick, food    *)
(* placement, maze generation and the game-over teardown.                  *)
(*                                                                         *)
(* Every source function that changes state is an operator from a state    *)
(* record to the SET of states it can return in: the set has more than one *)
(* element where the function draws from random() or where SPR_addSprite   *)
(* may return NULL.  An action reads the variables into a record, applies  *)
(* the functions in the order the code calls them and commits the result.  *)
(***************************************************************************)
EXTENDS Integers, Sequences, FiniteSets, TLC

(* ------------------------------ constants ------------------------------ *)
GRID_WIDTH == 40
GRID_HEIGHT == 28
SNAKE_START_X == 20
SNAKE_START_Y == 14
SNAKE_START_LENGTH == 3
SNAKE_MAX_LENGTH == 80
INITIAL_DELAY == 8
MIN_DELAY == 3
MAX_WALLS == 50
numWalls == 10

DIR_UP == 0
DIR_RIGHT == 1
DIR_DOWN == 2
DIR_LEFT == 3

STATE_INTRO == 0
STATE_PLAYING == 1
STATE_GAMEOVER == 2

NOTE_C4 == 262
NOTE_E4 == 330
NOTE_F4 == 349
NOTE_G4 == 392
NOTE_A4 == 440
NOTE_C5 == 523
NOTE_G3 == 196
NOTE_REST == 0
MELODY_SIZE == 16
BASS_SIZE == 8
MAX_TEMPO_FACTOR == 6

\* SGDK's psg.h: the envelope is the chip's attenuation, 15 is silence
PSG_ENVELOPE_MIN == 15
PSG_ENVELOPE_MAX == 0

NULL == 0
U16 == 65536

(* the game-over tune of showGameOver: <<frequency, baseDuration>> *)
gameOverTune ==
  << <<NOTE_G4, 8>>, <<NOTE_E4, 8>>, <<NOTE_C4, 8>>, <<NOTE_G3, 12>>, <<NOTE_REST, 8>> >>
tuneSize == 5

(* the tunes of updateMusic: <<frequency, baseDuration>> *)
melody ==
  << <<NOTE_C4, 8>>, <<NOTE_E4, 8>>, <<NOTE_G4, 8>>, <<NOTE_C5, 16>>,
     <<NOTE_G4, 8>>, <<NOTE_E4, 8>>, <<NOTE_C5, 16>>, <<NOTE_REST, 8>>,
     <<NOTE_A4, 8>>, <<NOTE_G4, 8>>, <<NOTE_E4, 8>>, <<NOTE_G4, 16>>,
     <<NOTE_E4, 8>>, <<NOTE_G4, 8>>, <<NOTE_A4, 8>>, <<NOTE_G4, 16>> >>

bass ==
  << <<NOTE_C4, 16>>, <<NOTE_G4 \div 2, 16>>,
     <<NOTE_C4, 16>>, <<NOTE_G4 \div 2, 16>>,
     <<NOTE_A4 \div 2, 16>>, <<NOTE_E4 \div 2, 16>>,
     <<NOTE_F4 \div 2, 16>>, <<NOTE_G4 \div 2, 16>> >>

introMelody ==
  << <<NOTE_E4, 8>>, <<NOTE_G4, 8>>, <<NOTE_A4, 8>>, <<NOTE_G4, 8>>,
     <<NOTE_E4, 8>>, <<NOTE_G4, 8>>, <<NOTE_A4, 12>>, <<NOTE_REST, 8>>,
     <<NOTE_G4, 8>>, <<NOTE_E4, 8>>, <<NOTE_G4, 8>>, <<NOTE_A4, 8>>,
     <<NOTE_G4, 8>>, <<NOTE_E4, 8>>, <<NOTE_A4, 12>>, <<NOTE_REST, 8>> >>

(* ------------------------------- bounds -------------------------------- *)
\* simulation ticks (calls of updateGame) explored in one game
MaxTicks == 3
\* value at which the frame counter of a paused game stops being explored
MaxFrameCount == 8
\* simulation ticks explored from a state of a game in progress
LateTicks == 1
\* intro frames explored before Start, where the sound is followed
MaxIntroFrames == 3

(* ------------------------------- inputs -------------------------------- *)
\* controller samples returned by JOY_readJoypad: sets of pressed buttons
\* (button B, which only switches the intro music, is not among them)
JoyInputs ==
  { {}, {"UP"}, {"RIGHT"}, {"DOWN"}, {"LEFT"}, {"START"}, {"UP", "RIGHT"} }

\* the controller samples explored where the sound is followed: Start and B
MusicInputs == { {}, {"START"}, {"B"}, {"START", "B"} }

\* the values of random() explored for one segment of the maze loop, four
\* per segment (orientation, length, x, y): the vertical and the horizontal
\* segment of 5 cells at the largest column and row the draws can give, the
\* horizontal segment of 3 cells that ends on the snake's start cell, and
\* the vertical segment of 3 cells at the smallest column and row
SegmentDraws ==
  { <<1, 2, 35, 436>>, <<0, 2, 31, 22>>, <<0, 0, 16, 11>>, <<1, 0, 36, 21>> }

\* the mazes explored.  Maze 1 leaves the start area open, with a wall three
\* cells in front of the head.  Maze 2 puts walls above, below and in front
\* of the head and on the two body cells, and stores one segment twice.
Mazes == {1, 2}
\* Maze 3 is maze 1 with a wall at (37, 3..5) in place of its second segment;
\* it is the maze of the games in progress of short snakes (LateState).

\* the 40 values random() returns during maze generation (4 per segment:
\* orientation, length, x, y), one stream per maze
MazeDraws(m) ==
  CASE m = 2 ->
         <<1, 2, 18, 9,   1, 0, 19, 10,  0, 0, 15, 11,  0, 1, 6, 17,
           0, 1, 6, 17,   0, 0, 0, 19,   0, 0, 4, 19,   0, 0, 8, 19,
           0, 0, 12, 19,  0, 0, 16, 19>>
    [] m = 3 ->
         <<0, 0, 21, 11,  1, 0, 35, 0,   1, 1, 28, 4,   0, 0, 0, 19,
           0, 0, 4, 19,   0, 0, 8, 19,   0, 0, 12, 19,  0, 0, 16, 19,
           0, 0, 20, 19,  0, 0, 24, 19>>
    [] OTHER ->
         <<0, 0, 21, 11,  1, 2, 3, 3,    1, 1, 28, 4,   0, 0, 0, 19,
           0, 0, 4, 19,   0, 0, 8, 19,   0, 0, 12, 19,  0, 0, 16, 19,
           0, 0, 20, 19,  0, 0, 24, 19>>

(* ------------------------------- helpers ------------------------------- *)
Bind(S, F(_)) == UNION { F(x) : x \in S }

\* the interior cells in the order generateFood scans them (y outer, x inner)
InteriorCells ==
  [k \in 1..((GRID_WIDTH - 2) * (GRID_HEIGHT - 3)) |->
     << 1 + ((k - 1) % (GRID_WIDTH - 2)), 2 + ((k - 1) \div (GRID_WIDTH - 2)) >>]

(* ------------------------------ variables ------------------------------ *)
VARIABLES
  gameState,       \* STATE_INTRO / STATE_PLAYING / STATE_GAMEOVER
  pc,              \* position of the program in main's loop / showGameOver
  snakeBody,       \* snakeBody[0..snakeLength-1] as a sequence (head first)
  snakeLength,
  direction,
  nextDirection,
  food,
  score,
  frameDelay,
  frameCount,
  paused,
  prevStartState,
  prevBState,
  musicEnabled,
  mazeWalls,       \* mazeWalls[0..wallCount-1] as a sequence
  wallCount,
  spriteHead,      \* sprite handles: NULL or a handle of the sprite engine
  spriteBody,      \* [0..SNAKE_MAX_LENGTH-2 -> handle]
  spriteFood,
  allocated,       \* the sprite engine's handles in use
  ticks,           \* number of updateGame calls in the current game
  goI,             \* showGameOver's loop index i
  tuneIndex,       \* showGameOver's tuneIndex
  tuneCounter,     \* showGameOver's tuneCounter
  psgFreq1,        \* frequency last set on PSG channel 1
  psgFreq2,        \* frequency last set on PSG channel 2
  psgEnv1,         \* envelope last set on PSG channel 1 (melody, tune)
  psgEnv2,         \* envelope last set on PSG channel 2 (bass)
  introAnimFrame,
  melodyIndex,
  bassIndex,
  melodyCounter,
  bassCounter,
  mazeW,           \* initGame's maze loop index w (0 outside the loop)
  headFrame,       \* frame last set on the head sprite
  bodyFrame        \* [0..SNAKE_MAX_LENGTH-2 -> frame of the sprite of the slot]

vars == << gameState, pc, snakeBody, snakeLength, direction, nextDirection,
           food, score, frameDelay, frameCount, paused, prevStartState,
           prevBState, musicEnabled, mazeWalls, wallCount, spriteHead,
           spriteBody, spriteFood, allocated, ticks, goI, tuneIndex,
           tuneCounter, psgFreq1, psgFreq2, psgEnv1, psgEnv2, introAnimFrame,
           melodyIndex, bassIndex, melodyCounter, bassCounter, mazeW,
           headFrame, bodyFrame >>

State ==
  [ gameState |-> gameState, pc |-> pc, snakeBody |-> snakeBody,
    snakeLength |-> snakeLength, direction |-> direction,
    nextDirection |-> nextDirection, food |-> food, score |-> score,
    frameDelay |-> frameDelay, frameCount |-> frameCount, paused |-> paused,
    prevStartState |-> prevStartState, prevBState |-> prevBState,
    musicEnabled |-> musicEnabled, mazeWalls |-> mazeWalls,
    wallCount |-> wallCount, spriteHead |-> spriteHead,
    spriteBody |-> spriteBody, spriteFood |-> spriteFood,
    allocated |-> allocated, ticks |-> ticks, goI |-> goI,
    tuneIndex |-> tuneIndex, tuneCounter |-> tuneCounter,
    psgFreq1 |-> psgFreq1, psgFreq2 |-> psgFreq2, psgEnv1 |-> psgEnv1,
    psgEnv2 |-> psgEnv2, introAnimFrame |-> introAnimFrame,
    melodyIndex |-> melodyIndex, bassIndex |-> bassIndex,
    melodyCounter |-> melodyCounter, bassCounter |-> bassCounter,
    mazeW |-> mazeW, headFrame |-> headFrame, bodyFrame |-> bodyFrame ]

\* the variables take the values of record s; of the array snakeBody the
\* entries below snakeLength are kept (the code reads no other entry before
\* writing it)
Commit(s) ==
  /\ gameState' = s.gameState
  /\ pc' = s.pc
  /\ snakeBody' = SubSeq(s.snakeBody, 1, s.snakeLength)
  /\ snakeLength' = s.snakeLength
  /\ direction' = s.direction
  /\ nextDirection' = s.nextDirection
  /\ food' = s.food
  /\ score' = s.score
  /\ frameDelay' = s.frameDelay
  /\ frameCount' = s.frameCount
  /\ paused' = s.paused
  /\ prevStartState' = s.prevStartState
  /\ prevBState' = s.prevBState
  /\ musicEnabled' = s.musicEnabled
  /\ mazeWalls' = s.mazeWalls
  /\ wallCount' = s.wallCount
  /\ spriteHead' = s.spriteHead
  /\ spriteBody' = s.spriteBody
  /\ spriteFood' = s.spriteFood
  /\ allocated' = s.allocated
  /\ ticks' = s.ticks
  /\ goI' = s.goI
  /\ tuneIndex' = s.tuneIndex
  /\ tuneCounter' = s.tuneCounter
  /\ psgFreq1' = s.psgFreq1
  /\ psgFreq2' = s.psgFreq2
  /\ psgEnv1' = s.psgEnv1
  /\ psgEnv2' = s.psgEnv2
  /\ introAnimFrame' = s.introAnimFrame
  /\ melodyIndex' = s.melodyIndex
  /\ bassIndex' = s.bassIndex
  /\ melodyCounter' = s.melodyCounter
  /\ bassCounter' = s.bassCounter
  /\ mazeW' = s.mazeW
  /\ headFrame' = s.headFrame
  /\ bodyFrame' = s.bodyFrame

(* ---------------------------- sprite engine ---------------------------- *)
\* the handle SPR_addSprite returns when it succeeds: the first one not in use
FreeHandle(pool) ==
  CHOOSE h \in 1..(SNAKE_MAX_LENGTH + 1) :
    h \notin pool /\ \A g \in 1..(h - 1) : g \in pool

\* SPR_addSprite where the code checks the result: NULL or a new handle.
\* (The head and food sprites, whose result the code does not check, are
\* taken to be allocated: initGame asks for them right after releasing
\* every sprite of the previous game.)
SPR_addSprite(pool) == { NULL, FreeHandle(pool) }

\* SPR_releaseSprite
SPR_releaseSprite(pool, h) == pool \ {h}

(* --------------------------- collision, food --------------------------- *)
\* the cells the two loops of checkCollision compare with: the body without
\* the head ("Skip head"), and the maze walls
Blocked(s) ==
  { s.snakeBody[i + 1] : i \in 1..(s.snakeLength - 1) }
    \union { s.mazeWalls[i + 1] : i \in 0..(s.wallCount - 1) }

\* variant: the body loop stops before the tail ("i < snakeLength - 1"),
\* as a check made after the shift would
checkCollisionSkipsTail(s, x, y) ==
  <<x, y>> \in { s.snakeBody[i + 1] : i \in 1..(s.snakeLength - 2) }
                 \union { s.mazeWalls[i + 1] : i \in 0..(s.wallCount - 1) }

\* variant: the loop over mazeWalls is left out
checkCollisionBodyOnly(s, x, y) ==
  <<x, y>> \in { s.snakeBody[i + 1] : i \in 1..(s.snakeLength - 1) }

checkCollision(s, x, y) == <<x, y>> \in Blocked(s)

\* the free tiles generateFood collects, in scan order: those for which
\* checkCollision(x, y) is false
freeTiles(s) ==
  LET blocked == Blocked(s)
      IsFree(c) == c \notin blocked
  IN  SelectSeq(InteriorCells, IsFree)

\* the start cell and its four neighbours
InFoodReach(c) ==
  \E d \in { <<0, 0>>, <<1, 0>>, <<-1, 0>>, <<0, 1>>, <<0, -1>> } :
    c = << SNAKE_START_X + d[1], SNAKE_START_Y + d[2] >>

\* the values of random() explored by generateFood: those that pick a free
\* tile in that neighbourhood (the first free tile when there is none)
FoodRandoms(free) ==
  LET near == { r \in 0..(Len(free) - 1) : InFoodReach(free[r + 1]) }
  IN  IF near = {} THEN {0} ELSE near

generateFood(s) ==
  LET free == freeTiles(s)
      freeCount == Len(free)
  IN  IF freeCount = 0
        THEN { [s EXCEPT !.gameState = STATE_GAMEOVER] }
        ELSE { [s EXCEPT !.food = free[(r % freeCount) + 1]] :
                 r \in FoodRandoms(free) }

(* --------------------------- maze generation --------------------------- *)
\* the inner loops of initGame's maze generation: cell i of one segment
RECURSIVE AddWallCells(_, _, _, _, _, _)
AddWallCells(walls, isVertical, x, y, length, i) ==
  IF isVertical = 1
    THEN IF i < length /\ y + i < GRID_HEIGHT - 1 /\ Len(walls) < MAX_WALLS * 5
           THEN IF x # SNAKE_START_X \/ y + i # SNAKE_START_Y
                  THEN AddWallCells(Append(walls, <<x, y + i>>),
                                    isVertical, x, y, length, i + 1)
                  ELSE AddWallCells(walls, isVertical, x, y, length, i + 1)
           ELSE walls
    ELSE IF i < length /\ x + i < GRID_WIDTH - 1 /\ Len(walls) < MAX_WALLS * 5
           THEN IF x + i # SNAKE_START_X \/ y # SNAKE_START_Y
                  THEN AddWallCells(Append(walls, <<x + i, y>>),
                                    isVertical, x, y, length, i + 1)
                  ELSE AddWallCells(walls, isVertical, x, y, length, i + 1)
           ELSE walls

\* variant: the anchor row of a vertical segment is drawn like the row of a
\* horizontal one ("y = 3 + (random() % (GRID_HEIGHT - 5))")
WallSegmentNoGap(walls, d) ==
  LET isVertical == d[1] % 2
      length == 3 + (d[2] % 3)
      x == IF isVertical = 1
             THEN 2 + (d[3] % (GRID_WIDTH - 4))
             ELSE 2 + (d[3] % (GRID_WIDTH - length - 3))
      y == 3 + (d[4] % (GRID_HEIGHT - 5))
  IN  AddWallCells(walls, isVertical, x, y, length, 0)

\* the body of the outer loop: one segment, from the 4 values d that
\* random() returns for it (orientation, length, x, y)
WallSegment(walls, d) ==
  LET isVertical == d[1] % 2
      length == 3 + (d[2] % 3)
      x == IF isVertical = 1
             THEN 2 + (d[3] % (GRID_WIDTH - 4))
             ELSE 2 + (d[3] % (GRID_WIDTH - length - 3))
      y == IF isVertical = 1
             THEN 3 + (d[4] % (GRID_HEIGHT - length - 4))
             ELSE 3 + (d[4] % (GRID_HEIGHT - 5))
  IN  AddWallCells(walls, isVertical, x, y, length, 0)

\* the outer loop: segment w of the maze, from 4 values of random()
RECURSIVE GenerateWalls(_, _, _)
GenerateWalls(walls, w, draws) ==
  IF w < numWalls /\ Len(walls) < MAX_WALLS * 5
    THEN GenerateWalls(WallSegment(walls, SubSeq(draws, 4 * w + 1, 4 * w + 4)),
                       w + 1, draws)
    ELSE walls

(* ------------------------------ initGame ------------------------------- *)
\* variant: a failed allocation caps the length below the failed segment
\* ("snakeLength = i - 1")
RECURSIVE InitBodySpritesCapsBelow(_, _)
InitBodySpritesCapsBelow(s, i) ==
  IF i < s.snakeLength
    THEN Bind(SPR_addSprite(s.allocated),
              LAMBDA h :
                IF h = NULL
                  THEN { [s EXCEPT !.spriteBody[i - 1] = NULL,
                                   !.snakeLength = i - 1] }
                  ELSE InitBodySpritesCapsBelow(
                         [s EXCEPT !.spriteBody[i - 1] = h,
                                   !.bodyFrame[i - 1] = 0,
                                   !.allocated = s.allocated \union {h}],
                         i + 1))
    ELSE { s }

\* "Create initial body sprites": iteration i of the loop
RECURSIVE InitBodySprites(_, _)
InitBodySprites(s, i) ==
  IF i < s.snakeLength
    THEN Bind(SPR_addSprite(s.allocated),
              LAMBDA h :
                IF h = NULL
                  THEN { [s EXCEPT !.spriteBody[i - 1] = NULL,
                                   !.snakeLength = i] }
                  ELSE InitBodySprites(
                         [s EXCEPT !.spriteBody[i - 1] = h,
                                   !.bodyFrame[i - 1] = 0,
                                   !.allocated = s.allocated \union {h}],
                         i + 1))
    ELSE { s }

initGame(s) ==
  LET released == { h \in {s.spriteHead, s.spriteFood}
                           \union { s.spriteBody[i] : i \in DOMAIN s.spriteBody } :
                      h # NULL }
      \* (a slot without a sprite has frame 0, the frame of a new sprite)
      cleaned == [s EXCEPT !.allocated = s.allocated \ released,
                           !.spriteBody = [i \in 0..(SNAKE_MAX_LENGTH - 2) |-> NULL],
                           !.bodyFrame = [i \in 0..(SNAKE_MAX_LENGTH - 2) |-> 0]]
      WithMaze(m) ==
        LET walls == GenerateWalls(<< >>, 0, MazeDraws(m))
            head == FreeHandle(cleaned.allocated)
        IN  [cleaned EXCEPT
               !.mazeWalls = walls,
               !.wallCount = Len(walls),
               !.snakeLength = SNAKE_START_LENGTH,
               !.snakeBody = [i \in 1..SNAKE_START_LENGTH |->
                                <<SNAKE_START_X - (i - 1), SNAKE_START_Y>>],
               !.direction = DIR_RIGHT,
               !.nextDirection = DIR_RIGHT,
               !.spriteHead = head,
               !.headFrame = 1,
               !.allocated = cleaned.allocated \union {head}]
      \* "for (i = snakeLength - 1; i < SNAKE_MAX_LENGTH - 1; i++) NULL"
      NullRest(t) ==
        [t EXCEPT !.spriteBody =
           [i \in 0..(SNAKE_MAX_LENGTH - 2) |->
              IF i >= t.snakeLength - 1 THEN NULL ELSE t.spriteBody[i]]]
      Finish(t) ==
        LET foodSprite == FreeHandle(t.allocated)
        IN  [t EXCEPT !.spriteFood = foodSprite,
                      !.allocated = t.allocated \union {foodSprite},
                      !.score = 0,
                      !.paused = FALSE,
                      !.prevStartState = FALSE,
                      !.frameDelay = INITIAL_DELAY,
                      !.frameCount = 0,
                      !.melodyIndex = 0,
                      !.bassIndex = 0,
                      !.melodyCounter = 0,
                      !.bassCounter = 0]
  IN  Bind(Mazes,
           LAMBDA m :
             Bind(InitBodySprites(WithMaze(m), 1),
                  LAMBDA t : { Finish(u) : u \in generateFood(NullRest(t)) }))

(* --------------------------- state transitions ------------------------- *)
\* variant: Start after game over restarts play at once
showIntroScreenRestarts(s) ==
  [s EXCEPT !.gameState = STATE_PLAYING,
            !.introAnimFrame = 0,
            !.melodyIndex = 0,
            !.bassIndex = 0,
            !.melodyCounter = 0,
            !.bassCounter = 0,
            !.score = 0,
            !.paused = FALSE,
            !.prevStartState = FALSE,
            !.musicEnabled = TRUE]

showIntroScreen(s) ==
  [s EXCEPT !.gameState = STATE_INTRO,
            !.introAnimFrame = 0,
            !.melodyIndex = 0,
            !.bassIndex = 0,
            !.melodyCounter = 0,
            !.bassCounter = 0,
            !.score = 0,
            !.paused = FALSE,
            !.prevStartState = FALSE,
            !.musicEnabled = TRUE]

\* variant: initGame without "frameDelay = INITIAL_DELAY"
startGameKeepsSpeed(s) ==
  { [t EXCEPT !.gameState = STATE_PLAYING, !.ticks = 0,
              !.frameDelay = s.frameDelay] : t \in initGame(s) }

\* (the count of ticks is the model's and restarts with the game)
startGame(s) ==
  { [t EXCEPT !.gameState = STATE_PLAYING, !.ticks = 0] : t \in initGame(s) }

togglePause(s) == [s EXCEPT !.paused = ~s.paused]

(* ----------------------------- handleInput ----------------------------- *)
\* variant: the D-pad sets the buffered direction without the reversal test
readDpadAnyTurn(t, j) ==
  IF t.gameState = STATE_PLAYING /\ ~t.paused
    THEN IF "UP" \in j THEN [t EXCEPT !.nextDirection = DIR_UP]
         ELSE IF "RIGHT" \in j THEN [t EXCEPT !.nextDirection = DIR_RIGHT]
         ELSE IF "DOWN" \in j THEN [t EXCEPT !.nextDirection = DIR_DOWN]
         ELSE IF "LEFT" \in j THEN [t EXCEPT !.nextDirection = DIR_LEFT]
         ELSE t
    ELSE t

\* "if (gameState == STATE_PLAYING && !paused)": the D-pad chain
readDpad(t, j) ==
  IF t.gameState = STATE_PLAYING /\ ~t.paused
    THEN IF "UP" \in j /\ t.direction # DIR_DOWN
           THEN [t EXCEPT !.nextDirection = DIR_UP]
         ELSE IF "RIGHT" \in j /\ t.direction # DIR_LEFT
           THEN [t EXCEPT !.nextDirection = DIR_RIGHT]
         ELSE IF "DOWN" \in j /\ t.direction # DIR_UP
           THEN [t EXCEPT !.nextDirection = DIR_DOWN]
         ELSE IF "LEFT" \in j /\ t.direction # DIR_RIGHT
           THEN [t EXCEPT !.nextDirection = DIR_LEFT]
         ELSE t
    ELSE t

\* variant: Start acts on its level ("if (startPressed)"), not on its edge
handleInputStartLevel(s, j) ==
  LET startPressed == "START" \in j
      bPressed == "B" \in j
      AfterStart ==
        IF startPressed
          THEN IF s.gameState = STATE_INTRO THEN startGame(s)
               ELSE IF s.gameState = STATE_PLAYING THEN { togglePause(s) }
               ELSE IF s.gameState = STATE_GAMEOVER THEN { showIntroScreen(s) }
               ELSE { s }
          ELSE { s }
      Music(t) ==
        LET u == [t EXCEPT !.prevStartState = startPressed]
            toggle == u.gameState = STATE_INTRO /\ bPressed /\ ~u.prevBState
            mute == toggle /\ u.musicEnabled
        IN  [u EXCEPT !.musicEnabled = IF toggle THEN ~u.musicEnabled
                                       ELSE u.musicEnabled,
                      !.psgEnv1 = IF mute THEN PSG_ENVELOPE_MIN ELSE u.psgEnv1,
                      !.psgEnv2 = IF mute THEN PSG_ENVELOPE_MIN ELSE u.psgEnv2,
                      !.prevBState = bPressed]
  IN  { readDpad(Music(t), j) : t \in AfterStart }

handleInput(s, j) ==
  LET startPressed == "START" \in j
      bPressed == "B" \in j
      AfterStart ==
        IF startPressed /\ ~s.prevStartState
          THEN IF s.gameState = STATE_INTRO THEN startGame(s)
               ELSE IF s.gameState = STATE_PLAYING THEN { togglePause(s) }
               ELSE IF s.gameState = STATE_GAMEOVER THEN { showIntroScreen(s) }
               ELSE { s }
          ELSE { s }
      Music(t) ==
        LET u == [t EXCEPT !.prevStartState = startPressed]
            toggle == u.gameState = STATE_INTRO /\ bPressed /\ ~u.prevBState
            mute == toggle /\ u.musicEnabled
        IN  [u EXCEPT !.musicEnabled = IF toggle THEN ~u.musicEnabled
                                       ELSE u.musicEnabled,
                      !.psgEnv1 = IF mute THEN PSG_ENVELOPE_MIN ELSE u.psgEnv1,
                      !.psgEnv2 = IF mute THEN PSG_ENVELOPE_MIN ELSE u.psgEnv2,
                      !.prevBState = bPressed]
  IN  { readDpad(Music(t), j) : t \in AfterStart }

(* ------------------------------ updateGame ----------------------------- *)
\* variant: the loop runs upward ("for (i = 1; i <= snakeLength; i++)") and
\* copies the head cell into every entry
growShiftUpward(body, L) == [i \in 1..(L + 1) |-> body[1]]

\* "for (i = snakeLength; i > 0; i--) snakeBody[i] = snakeBody[i - 1]"
growShift(body, L) ==
  [i \in 1..(L + 1) |-> IF i = 1 THEN body[1] ELSE body[i - 1]]

\* variant: the loop of a move runs upward and copies the head cell into
\* every entry
moveShiftUpward(body, L) == [i \in 1..L |-> body[1]]

\* "for (i = snakeLength - 1; i > 0; i--) snakeBody[i] = snakeBody[i - 1]"
moveShift(body, L) ==
  [i \in 1..L |-> IF i = 1 THEN body[1] ELSE body[i - 1]]

\* variant: the speed-up has no floor ("if (score % 50 == 0) frameDelay--")
speedUpNoFloor(points, delay) ==
  IF points % 50 = 0 THEN (delay - 1) % U16 ELSE delay

\* variant: the speed-up comes every 100 points ("score % 100 == 0")
speedUpEveryHundred(points, delay) ==
  IF points % 100 = 0 /\ delay > MIN_DELAY THEN delay - 1 ELSE delay

\* variant: every pickup speeds the game up ("if (frameDelay > MIN_DELAY)")
speedUpEveryPickup(points, delay) ==
  IF delay > MIN_DELAY THEN delay - 1 ELSE delay

\* "if (score % 50 == 0 && frameDelay > MIN_DELAY) frameDelay--"
speedUp(points, delay) ==
  IF points % 50 = 0 /\ delay > MIN_DELAY THEN delay - 1 ELSE delay

\* One simulation tick.  On a collision the code calls showGameOver and
\* returns: the call is the position "go_start", the teardown itself is the
\* GameOver... actions below.
updateGame(s) ==
  LET L == s.snakeLength
      s1 == [s EXCEPT !.direction = s.nextDirection]
      newHeadX == s.snakeBody[1][1]
                    + (IF s1.direction = DIR_RIGHT THEN 1
                       ELSE IF s1.direction = DIR_LEFT THEN -1 ELSE 0)
      newHeadY == s.snakeBody[1][2]
                    + (IF s1.direction = DIR_DOWN THEN 1
                       ELSE IF s1.direction = DIR_UP THEN -1 ELSE 0)
      GameOver == [s1 EXCEPT !.gameState = STATE_GAMEOVER, !.pc = "go_start"]
      Moved == [s1 EXCEPT !.snakeBody = moveShift(s.snakeBody, L)]
      SetHead(t) == [t EXCEPT !.snakeBody[1] = <<newHeadX, newHeadY>>]
      \* playEatSound ... "if (score % 50 == 0 && frameDelay > MIN_DELAY)"
      AfterEat(t) ==
        { SetHead([u EXCEPT !.frameDelay = speedUp(u.score, u.frameDelay)]) :
            u \in generateFood([t EXCEPT !.score = (t.score + 10) % U16]) }
      Grown == [s1 EXCEPT !.snakeBody = growShift(s.snakeBody, L)]
  IN  IF \/ newHeadX <= 0 \/ newHeadX >= GRID_WIDTH - 1
         \/ newHeadY <= 1 \/ newHeadY >= GRID_HEIGHT - 1
         \/ checkCollision(s1, newHeadX, newHeadY)
        THEN { GameOver }
      ELSE IF checkCollision(s1, newHeadX, newHeadY)
        THEN { GameOver }
      ELSE IF newHeadX = s.food[1] /\ newHeadY = s.food[2]
        THEN IF L < SNAKE_MAX_LENGTH
               THEN IF L > 1 /\ s.spriteBody[L - 2] = NULL
                      THEN Bind(SPR_addSprite(s.allocated),
                                LAMBDA h :
                                  IF h = NULL
                                    THEN { [Grown EXCEPT !.snakeLength = L - 1] }
                                    ELSE AfterEat(
                                           [Grown EXCEPT
                                              !.spriteBody[L - 2] = h,
                                              !.bodyFrame[L - 2] = 0,
                                              !.allocated = s.allocated \union {h},
                                              !.snakeLength = L + 1]))
                      ELSE AfterEat([Grown EXCEPT !.snakeLength = L + 1])
               ELSE AfterEat(Moved)
      ELSE { SetHead(Moved) }

(* ------------------------ intro screen and music ----------------------- *)
\* "introAnimFrame++" (the blinking text is not state of the model)
updateIntroScreen(s) ==
  [s EXCEPT !.introAnimFrame = (s.introAnimFrame + 1) % U16]

\* variant: the factor follows frameDelay in the intro too
tempoFactorIgnoresMode(s) ==
  LET f == ((s.frameDelay * 10) % U16) \div INITIAL_DELAY
  IN  IF s.gameState # STATE_INTRO /\ f <= MAX_TEMPO_FACTOR
        THEN MAX_TEMPO_FACTOR
        ELSE f

\* variant: the factor follows frameDelay without the cap
tempoFactorUncapped(s) ==
  IF s.gameState = STATE_INTRO THEN 12
  ELSE ((s.frameDelay * 10) % U16) \div INITIAL_DELAY

\* "(gameState == STATE_INTRO) ? 12 : max((frameDelay * 10) / INITIAL_DELAY, MAX_TEMPO_FACTOR)"
tempoFactor(s) ==
  IF s.gameState = STATE_INTRO THEN 12
  ELSE LET f == ((s.frameDelay * 10) % U16) \div INITIAL_DELAY
       IN  IF f > MAX_TEMPO_FACTOR THEN f ELSE MAX_TEMPO_FACTOR

\* the sequencer of updateMusic: a channel whose counter is 0 starts its next
\* note, then both counters are decremented
sequencerStep(s) ==
  LET melodyVolume == PSG_ENVELOPE_MAX \div 8
      bassVolume == PSG_ENVELOPE_MAX \div 16
      currentMelody == IF s.gameState = STATE_INTRO THEN introMelody ELSE melody
      melodyNote == currentMelody[s.melodyIndex + 1]
      bassNote == bass[s.bassIndex + 1]
      melodyDuration == ((melodyNote[2] * tempoFactor(s)) % U16) \div 10
      bassDuration == ((bassNote[2] * tempoFactor(s)) % U16) \div 10
      m == IF s.melodyCounter = 0
             THEN [s EXCEPT !.psgFreq1 = melodyNote[1],
                            !.psgEnv1 = IF melodyNote[1] # NOTE_REST
                                          THEN melodyVolume
                                          ELSE PSG_ENVELOPE_MIN,
                            !.melodyCounter = melodyDuration,
                            !.melodyIndex = (s.melodyIndex + 1) % MELODY_SIZE]
             ELSE s
      m1 == [m EXCEPT !.melodyCounter = (m.melodyCounter - 1) % U16]
      b == IF m1.bassCounter = 0
             THEN [m1 EXCEPT !.psgFreq2 = bassNote[1],
                             !.psgEnv2 = IF bassNote[1] # NOTE_REST
                                           THEN bassVolume
                                           ELSE PSG_ENVELOPE_MIN,
                             !.bassCounter = bassDuration,
                             !.bassIndex = (s.bassIndex + 1) % BASS_SIZE]
             ELSE m1
  IN  [b EXCEPT !.bassCounter = (b.bassCounter - 1) % U16]

\* variant: only game over silences the music, a paused game plays on
updateMusicPlaysInPause(s) ==
  IF s.gameState = STATE_GAMEOVER
    THEN [s EXCEPT !.psgEnv1 = PSG_ENVELOPE_MIN, !.psgEnv2 = PSG_ENVELOPE_MIN]
  ELSE IF ~s.musicEnabled
    THEN [s EXCEPT !.psgEnv1 = PSG_ENVELOPE_MIN, !.psgEnv2 = PSG_ENVELOPE_MIN]
  ELSE sequencerStep(s)

updateMusic(s) ==
  IF s.gameState = STATE_GAMEOVER \/ (s.gameState = STATE_PLAYING /\ s.paused)
    THEN [s EXCEPT !.psgEnv1 = PSG_ENVELOPE_MIN, !.psgEnv2 = PSG_ENVELOPE_MIN]
  ELSE IF ~s.musicEnabled
    THEN [s EXCEPT !.psgEnv1 = PSG_ENVELOPE_MIN, !.psgEnv2 = PSG_ENVELOPE_MIN]
  ELSE sequencerStep(s)

(* -------------------------------- Init --------------------------------- *)
\* the statics as main finds them, after showIntroScreen
Init ==
  /\ gameState = STATE_INTRO
  /\ pc = "main"
  /\ snakeBody = << >>
  /\ snakeLength = 0
  /\ direction = 0
  /\ nextDirection = 0
  /\ food = <<0, 0>>
  /\ score = 0
  /\ frameDelay = 0
  /\ frameCount = 0
  /\ paused = FALSE
  /\ prevStartState = FALSE
  /\ prevBState = FALSE
  /\ musicEnabled = TRUE
  /\ mazeWalls = << >>
  /\ wallCount = 0
  /\ spriteHead = NULL
  /\ spriteBody = [i \in 0..(SNAKE_MAX_LENGTH - 2) |-> NULL]
  /\ spriteFood = NULL
  /\ allocated = {}
  /\ ticks = 0
  /\ goI = 0
  /\ tuneIndex = 0
  /\ tuneCounter = 0
  /\ psgFreq1 = 0
  /\ psgFreq2 = 0
  /\ psgEnv1 = PSG_ENVELOPE_MIN
  /\ psgEnv2 = PSG_ENVELOPE_MIN
  /\ introAnimFrame = 0
  /\ melodyIndex = 0
  /\ bassIndex = 0
  /\ melodyCounter = 0
  /\ bassCounter = 0
  /\ mazeW = 0
  /\ headFrame = 0
  /\ bodyFrame = [i \in 0..(SNAKE_MAX_LENGTH - 2) |-> 0]

(* ------------------------------ drawGame ------------------------------- *)
\* variant: the two body frames change places
drawGameSwapsBodyFrames(s) ==
  [s EXCEPT
     !.headFrame =
        IF s.spriteHead = NULL THEN s.headFrame
        ELSE IF s.direction = DIR_DOWN THEN 0
        ELSE IF s.direction = DIR_RIGHT THEN 1
        ELSE IF s.direction = DIR_UP THEN 2
        ELSE 3,
     !.bodyFrame =
        [k \in 0..(SNAKE_MAX_LENGTH - 2) |->
           IF k + 1 < s.snakeLength /\ s.spriteBody[k] # NULL
             THEN LET dx == s.snakeBody[k + 1][1] - s.snakeBody[k + 2][1]
                      dy == s.snakeBody[k + 1][2] - s.snakeBody[k + 2][2]
                  IN  IF dx # 0 THEN 1
                      ELSE IF dy # 0 THEN 0
                      ELSE s.bodyFrame[k]
             ELSE s.bodyFrame[k]]]

\* "switch (direction)" and the loop "for (i = 1; i < snakeLength; i++)",
\* slot k = i - 1.  The calls on spriteHead are made on a null pointer in the
\* frame of a collision: no sprite takes the frame then.
drawGame(s) ==
  [s EXCEPT
     !.headFrame =
        IF s.spriteHead = NULL THEN s.headFrame
        ELSE IF s.direction = DIR_DOWN THEN 0
        ELSE IF s.direction = DIR_RIGHT THEN 1
        ELSE IF s.direction = DIR_UP THEN 2
        ELSE 3,
     !.bodyFrame =
        [k \in 0..(SNAKE_MAX_LENGTH - 2) |->
           IF k + 1 < s.snakeLength /\ s.spriteBody[k] # NULL
             THEN LET dx == s.snakeBody[k + 1][1] - s.snakeBody[k + 2][1]
                      dy == s.snakeBody[k + 1][2] - s.snakeBody[k + 2][2]
                  IN  IF dx # 0 THEN 0
                      ELSE IF dy # 0 THEN 1
                      ELSE s.bodyFrame[k]
             ELSE s.bodyFrame[k]]]

(* ---------------------- the frame loop of main ------------------------- *)
\* One iteration of "while (1)" is one step: handleInput, then the branch of
\* the mode handleInput leaves, then updateMusic and the V-blank wait.  The
\* iteration in which updateGame detects a collision goes on in showGameOver
\* and ends with GameOverEnd.
gameVars == << gameState, snakeBody, snakeLength, direction, nextDirection,
               food, score, frameDelay, frameCount, paused, mazeWalls,
               wallCount, ticks, mazeW >>
inputVars == << prevStartState, prevBState, musicEnabled >>
spriteVars == << spriteHead, spriteBody, spriteFood, allocated >>
frameVars == << headFrame, bodyFrame >>
tuneVars == << tuneIndex, tuneCounter, psgFreq1, psgEnv1 >>
\* the statics of the intro animation and of updateMusic's sequencer
seqVars == << introAnimFrame, melodyIndex, bassIndex, melodyCounter,
              bassCounter, psgFreq2 >>

\* "PSG_setEnvelope(1, frequency != NOTE_REST ? PSG_ENVELOPE_MAX / 4 : PSG_ENVELOPE_MIN)"
tuneEnvelope(note) ==
  IF note[1] # NOTE_REST THEN PSG_ENVELOPE_MAX \div 4 ELSE PSG_ENVELOPE_MIN

\* variant: the tick waits until the counter has passed frameDelay
TickDueOneLate(s) == ((s.frameCount + 1) % U16) > s.frameDelay /\ ~s.paused

\* variant: the test without "&& !paused"
TickDueWhilePaused(s) == ((s.frameCount + 1) % U16) >= s.frameDelay

\* "frameCount++; if (frameCount >= frameDelay && !paused)"
TickDue(s) == ((s.frameCount + 1) % U16) >= s.frameDelay /\ ~s.paused

\* the branch of the loop body for the mode handleInput leaves in t
Dispatch(t) ==
  IF t.gameState = STATE_PLAYING
    THEN IF TickDue(t)
           THEN /\ t.ticks < MaxTicks
                /\ \E u \in updateGame([t EXCEPT !.frameCount = 0,
                                                 !.ticks = t.ticks + 1]) :
                     Commit(IF u.pc = "go_start" THEN u ELSE drawGame(u))
           ELSE /\ (t.frameCount + 1) % U16 <= MaxFrameCount
                /\ Commit(drawGame(
                            [t EXCEPT !.frameCount = (t.frameCount + 1) % U16]))
    ELSE Commit(t)

\* the loop body when JOY_readJoypad returns j
FrameOn(j) ==
  /\ pc = "main"
  /\ \E t \in handleInput(State, j) : Dispatch(t)

\* a frame that starts in the intro (Start begins the game in it)
IntroFrame ==
  /\ gameState = STATE_INTRO
  /\ \E j \in JoyInputs : FrameOn(j)

\* a frame that starts after game over (Start shows the intro in it)
GameOverFrame ==
  /\ gameState = STATE_GAMEOVER
  /\ \E j \in JoyInputs : FrameOn(j)

\* a frame of play in which updateGame does not run
PlayingFrame ==
  /\ gameState = STATE_PLAYING
  /\ pc = "main"
  /\ \E j \in JoyInputs :
       \E t \in handleInput(State, j) : ~TickDue(t) /\ Dispatch(t)

\* a frame of play in which updateGame runs
PlayingTick ==
  /\ gameState = STATE_PLAYING
  /\ pc = "main"
  /\ \E j \in JoyInputs :
       \E t \in handleInput(State, j) : TickDue(t) /\ Dispatch(t)

(* ------------------ the frame loop with sound followed ----------------- *)
\* The frames above leave the intro animation counter and the sequencer of
\* updateMusic as they find them.  The frames below follow them: the loop
\* body with updateIntroScreen in the intro and updateMusic at its end.  (In
\* the frame of a collision updateMusic runs after showGameOver and sets
\* the two envelopes showGameOver's last lines have set: GameOverEnd.)
MusicFrameOn(j) ==
  /\ pc = "main"
  /\ \E t \in handleInput(State, j) :
       IF t.gameState = STATE_INTRO
         THEN /\ t.introAnimFrame < MaxIntroFrames
              /\ Commit(updateMusic(updateIntroScreen(t)))
       ELSE IF t.gameState = STATE_PLAYING
         THEN IF TickDue(t)
                THEN /\ t.ticks < MaxTicks
                     /\ \E u \in updateGame([t EXCEPT !.frameCount = 0,
                                                      !.ticks = t.ticks + 1]) :
                          Commit(IF u.pc = "go_start"
                                   THEN u
                                   ELSE updateMusic(drawGame(u)))
                ELSE /\ (t.frameCount + 1) % U16 <= MaxFrameCount
                     /\ Commit(updateMusic(drawGame(
                                 [t EXCEPT !.frameCount = (t.frameCount + 1) % U16])))
       ELSE Commit(updateMusic(t))

MusicIntroFrame ==
  /\ gameState = STATE_INTRO
  /\ \E j \in MusicInputs : MusicFrameOn(j)

MusicPlayingFrame ==
  /\ gameState = STATE_PLAYING
  /\ \E j \in MusicInputs : MusicFrameOn(j)

MusicGameOverFrame ==
  /\ gameState = STATE_GAMEOVER
  /\ \E j \in MusicInputs : MusicFrameOn(j)

(* ---------------------------- showGameOver ----------------------------- *)
\* texts, silence, waitMs(200), the locals, "i = snakeLength - 1"
GameOverStart ==
  /\ pc = "go_start"
  /\ pc' = "go_body"
  /\ goI' = (snakeLength - 1) % U16
  /\ tuneIndex' = 0
  /\ tuneCounter' = 0
  /\ psgEnv1' = PSG_ENVELOPE_MIN
  /\ psgEnv2' = PSG_ENVELOPE_MIN
  /\ UNCHANGED << gameVars, inputVars, spriteVars, psgFreq1, seqVars,
                  frameVars >>

\* variant: the iteration for i = 1 leaves spriteBody[0] as it is
GameOverBodyKeepsFirst ==
  /\ pc = "go_body"
  /\ goI > 0
  /\ LET h == spriteBody[goI - 1]
         release == h # NULL /\ goI > 1
         startNote == tuneCounter = 0 /\ tuneIndex < tuneSize
         counter == IF startNote THEN gameOverTune[tuneIndex + 1][2] * 2
                    ELSE tuneCounter
     IN  /\ spriteBody' = IF release THEN [spriteBody EXCEPT ![goI - 1] = NULL]
                          ELSE spriteBody
         /\ allocated' = IF release THEN SPR_releaseSprite(allocated, h)
                         ELSE allocated
         /\ psgFreq1' = IF startNote THEN gameOverTune[tuneIndex + 1][1]
                        ELSE psgFreq1
         /\ psgEnv1' = IF startNote THEN tuneEnvelope(gameOverTune[tuneIndex + 1])
                       ELSE psgEnv1
         /\ tuneIndex' = IF startNote THEN tuneIndex + 1 ELSE tuneIndex
         /\ tuneCounter' = IF counter > 0 THEN counter - 1 ELSE counter
  /\ goI' = goI - 1
  /\ UNCHANGED << pc, gameVars, inputVars, spriteHead, spriteFood, psgEnv2,
                  seqVars,
                  frameVars >>

\* one iteration of "Animate snake disappearance"
GameOverBody ==
  /\ pc = "go_body"
  /\ goI > 0
  /\ LET h == spriteBody[goI - 1]
         startNote == tuneCounter = 0 /\ tuneIndex < tuneSize
         counter == IF startNote THEN gameOverTune[tuneIndex + 1][2] * 2
                    ELSE tuneCounter
     IN  /\ spriteBody' = [spriteBody EXCEPT ![goI - 1] = NULL]
         /\ allocated' = IF h # NULL THEN SPR_releaseSprite(allocated, h)
                         ELSE allocated
         /\ psgFreq1' = IF startNote THEN gameOverTune[tuneIndex + 1][1]
                        ELSE psgFreq1
         /\ psgEnv1' = IF startNote THEN tuneEnvelope(gameOverTune[tuneIndex + 1])
                       ELSE psgEnv1
         /\ tuneIndex' = IF startNote THEN tuneIndex + 1 ELSE tuneIndex
         /\ tuneCounter' = IF counter > 0 THEN counter - 1 ELSE counter
  /\ goI' = goI - 1
  /\ UNCHANGED << pc, gameVars, inputVars, spriteHead, spriteFood, psgEnv2,
                  seqVars,
                  frameVars >>

\* variant: the head sprite is released and spriteHead keeps the handle
GameOverHeadKeepsPointer ==
  /\ pc = "go_body"
  /\ goI = 0
  /\ pc' = "go_food"
  /\ allocated' = IF spriteHead # NULL
                    THEN SPR_releaseSprite(allocated, spriteHead)
                    ELSE allocated
  /\ UNCHANGED << gameVars, inputVars, spriteHead, spriteBody, spriteFood,
                  goI, tuneVars, psgEnv2, seqVars,
                  frameVars >>

\* the loop is over: "if (spriteHead) { SPR_releaseSprite(spriteHead); ... }"
GameOverHead ==
  /\ pc = "go_body"
  /\ goI = 0
  /\ pc' = "go_food"
  /\ spriteHead' = NULL
  /\ allocated' = IF spriteHead # NULL
                    THEN SPR_releaseSprite(allocated, spriteHead)
                    ELSE allocated
  /\ UNCHANGED << gameVars, inputVars, spriteBody, spriteFood, goI, tuneVars,
                  psgEnv2, seqVars,
                  frameVars >>

\* variant: showGameOver without the release of the food sprite
GameOverFoodKeepsSprite ==
  /\ pc = "go_food"
  /\ pc' = "go_tune"
  /\ UNCHANGED << gameVars, inputVars, spriteVars, goI, tuneVars, psgEnv2,
                  seqVars,
                  frameVars >>

\* "if (spriteFood) { SPR_releaseSprite(spriteFood); ... }"
GameOverFood ==
  /\ pc = "go_food"
  /\ pc' = "go_tune"
  /\ spriteFood' = NULL
  /\ allocated' = IF spriteFood # NULL
                    THEN SPR_releaseSprite(allocated, spriteFood)
                    ELSE allocated
  /\ UNCHANGED << gameVars, inputVars, spriteHead, spriteBody, goI, tuneVars,
                  psgEnv2, seqVars,
                  frameVars >>

\* variant: the counter of the note being played is not decremented
GameOverTuneNoCountdown ==
  /\ pc = "go_tune"
  /\ tuneIndex < tuneSize
  /\ LET startNote == tuneCounter = 0
     IN  /\ psgFreq1' = IF startNote THEN gameOverTune[tuneIndex + 1][1]
                        ELSE psgFreq1
         /\ psgEnv1' = IF startNote THEN tuneEnvelope(gameOverTune[tuneIndex + 1])
                       ELSE psgEnv1
         /\ tuneIndex' = IF startNote THEN tuneIndex + 1 ELSE tuneIndex
         /\ tuneCounter' = IF startNote THEN gameOverTune[tuneIndex + 1][2] * 2
                           ELSE tuneCounter
  /\ UNCHANGED << pc, gameVars, inputVars, spriteVars, goI, psgEnv2, seqVars,
                  frameVars >>

\* one iteration of "Finish tune"
GameOverTune ==
  /\ pc = "go_tune"
  /\ tuneIndex < tuneSize
  /\ LET startNote == tuneCounter = 0
         counter == IF startNote THEN gameOverTune[tuneIndex + 1][2] * 2
                    ELSE tuneCounter
     IN  /\ psgFreq1' = IF startNote THEN gameOverTune[tuneIndex + 1][1]
                        ELSE psgFreq1
         /\ psgEnv1' = IF startNote THEN tuneEnvelope(gameOverTune[tuneIndex + 1])
                       ELSE psgEnv1
         /\ tuneIndex' = IF startNote THEN tuneIndex + 1 ELSE tuneIndex
         /\ tuneCounter' = (counter - 1) % U16
  /\ UNCHANGED << pc, gameVars, inputVars, spriteVars, goI, psgEnv2, seqVars,
                  frameVars >>

\* showGameOver and updateGame return; the frame ends (drawGame, SPR_update,
\* updateMusic, V-blank)
GameOverEnd ==
  /\ pc = "go_tune"
  /\ tuneIndex >= tuneSize
  /\ pc' = "main"
  /\ goI' = 0
  /\ tuneIndex' = 0
  /\ tuneCounter' = 0
  /\ psgEnv1' = PSG_ENVELOPE_MIN
  /\ psgEnv2' = PSG_ENVELOPE_MIN
  /\ UNCHANGED << gameVars, inputVars, spriteVars, psgFreq1, seqVars,
                  frameVars >>

Next ==
  \/ IntroFrame
  \/ GameOverFrame
  \/ PlayingFrame
  \/ PlayingTick
  \/ GameOverStart
  \/ GameOverBody
  \/ GameOverHead
  \/ GameOverFood
  \/ GameOverTune
  \/ GameOverEnd

Spec == Init /\ [][Next]_vars

(* ------------------------------ drawGame ------------------------------- *)
\* the handles drawGame passes to SPR_setPosition and SPR_setFrame: the head
\* handle as it is, a body handle under "if (spriteBody[i-1])"
drawGameHandles ==
  {spriteHead} \union
    { spriteBody[i - 1] : i \in { k \in 1..(snakeLength - 1) : spriteBody[k - 1] # NULL } }

\* the step ends an iteration of main's loop that took the PLAYING branch:
\* "if (...) { frameCount = 0; updateGame(); }  drawGame();" calls drawGame
\* whatever updateGame did, also when it returns from showGameOver
DrawGameRuns ==
  \/ pc = "main" /\ pc' = "main" /\ gameState' = STATE_PLAYING
  \/ pc = "go_tune" /\ pc' = "main"

(* ----------------------- the maze loop of initGame --------------------- *)
\* The maze loop on its own, one segment a step, over the values random()
\* can return for a segment.
\* (the statics are those of Init when the first game reaches the loop)
\* one iteration of "for (w = 0; w < numWalls && wallCount < MAX_WALLS * 5; w++)"
MazeSegment ==
  /\ gameState = STATE_INTRO
  /\ pc = "main"
  /\ mazeW < numWalls
  /\ wallCount < MAX_WALLS * 5
  /\ \E d \in SegmentDraws :
       LET walls == WallSegment(mazeWalls, d)
       IN  Commit([State EXCEPT !.mazeWalls = walls,
                                !.wallCount = Len(walls),
                                !.mazeW = mazeW + 1])

MazeSpec == Init /\ [][MazeSegment]_vars

\* the program with the sound followed, driven by Start and B
MusicNext ==
  \/ MusicIntroFrame
  \/ MusicPlayingFrame
  \/ MusicGameOverFrame
  \/ GameOverStart
  \/ GameOverBody
  \/ GameOverHead
  \/ GameOverFood
  \/ GameOverTune
  \/ GameOverEnd

MusicSpec == Init /\ [][MusicNext]_vars

(* ------------------------- games in progress --------------------------- *)
\* Long snakes take more ticks to grow than MaxTicks allows, and the border
\* is 18 cells from the start cell.  LateInit is a set of states of games in
\* progress: a snake of length 1..SNAKE_MAX_LENGTH that lies along rows 2, 3
\* and 4 with its head at (37, 2) heading right, the food in front of it at
\* (38, 2), a tick due in the next frame.  Above the head is the border;
\* below it, at (37, 3), a wall (snakes of up to 73 cells, maze 3) or the
\* snake's own cell 73 (longer snakes, maze 1).

\* cell k of the snake (k = 0 is the head)
LateCell(k) ==
  IF k <= 36 THEN <<37 - k, 2>>
  ELSE IF k <= 74 THEN <<k - 36, 3>>
  ELSE <<113 - k, 4>>

\* Handles are numbered head 1, food 2, body i + 3 (a renaming of the
\* numbers the engine hands out in the course of a game).
\* lastBound: is spriteBody[L - 2] bound.  Without a failed allocation it is
\* bound at length 3 only, because growth binds the handle of the previous
\* tail; after a failed allocation at length L + 1 it is bound at length L.
LateState(L, lastBound) ==
  LET walls == GenerateWalls(<< >>, 0, MazeDraws(IF L <= 73 THEN 3 ELSE 1))
      \* food eaten so far: a game that starts with 1 or 2 segments lost
      \* allocations in initGame
      eaten == IF L = 1 THEN 0
               ELSE IF L <= SNAKE_START_LENGTH
                 THEN (IF lastBound THEN 0 ELSE 1)
               ELSE IF lastBound THEN L - 2
               ELSE L - 3
      bound == IF lastBound THEN L - 2 ELSE L - 3
      delay == INITIAL_DELAY - (eaten \div 5)
  IN  [ gameState |-> STATE_PLAYING, pc |-> "main",
        snakeBody |-> [i \in 1..L |-> LateCell(i - 1)],
        snakeLength |-> L, direction |-> DIR_RIGHT,
        nextDirection |-> DIR_RIGHT, food |-> <<38, 2>>,
        score |-> 10 * eaten,
        frameDelay |-> IF delay < MIN_DELAY THEN MIN_DELAY ELSE delay,
        frameCount |-> (IF delay < MIN_DELAY THEN MIN_DELAY ELSE delay) - 1,
        paused |-> FALSE, prevStartState |-> FALSE, prevBState |-> FALSE,
        musicEnabled |-> TRUE, mazeWalls |-> walls, wallCount |-> Len(walls),
        spriteHead |-> 1,
        spriteBody |-> [i \in 0..(SNAKE_MAX_LENGTH - 2) |->
                          IF i <= bound THEN i + 3 ELSE NULL],
        spriteFood |-> 2,
        allocated |-> {1, 2} \union { i + 3 : i \in 0..bound },
        ticks |-> MaxTicks - LateTicks, goI |-> 0, tuneIndex |-> 0,
        tuneCounter |-> 0, psgFreq1 |-> 0, psgFreq2 |-> 0,
        psgEnv1 |-> PSG_ENVELOPE_MIN, psgEnv2 |-> PSG_ENVELOPE_MIN,
        introAnimFrame |-> 0, melodyIndex |-> 0, bassIndex |-> 0,
        melodyCounter |-> 0, bassCounter |-> 0, mazeW |-> 0,
        headFrame |-> 1,
        \* the frames drawGame has set: 1 where the snake turns into the
        \* next row
        bodyFrame |-> [i \in 0..(SNAKE_MAX_LENGTH - 2) |->
                         IF i <= bound /\ i + 1 < L
                              /\ LateCell(i)[2] # LateCell(i + 1)[2]
                           THEN 1 ELSE 0] ]

LateStates ==
  { LateState(L, b) : L \in 1..SNAKE_MAX_LENGTH, b \in BOOLEAN }

IsState(s) ==
  /\ gameState = s.gameState
  /\ pc = s.pc
  /\ snakeBody = s.snakeBody
  /\ snakeLength = s.snakeLength
  /\ direction = s.direction
  /\ nextDirection = s.nextDirection
  /\ food = s.food
  /\ score = s.score
  /\ frameDelay = s.frameDelay
  /\ frameCount = s.frameCount
  /\ paused = s.paused
  /\ prevStartState = s.prevStartState
  /\ prevBState = s.prevBState
  /\ musicEnabled = s.musicEnabled
  /\ mazeWalls = s.mazeWalls
  /\ wallCount = s.wallCount
  /\ spriteHead = s.spriteHead
  /\ spriteBody = s.spriteBody
  /\ spriteFood = s.spriteFood
  /\ allocated = s.allocated
  /\ ticks = s.ticks
  /\ goI = s.goI
  /\ tuneIndex = s.tuneIndex
  /\ tuneCounter = s.tuneCounter
  /\ psgFreq1 = s.psgFreq1
  /\ psgFreq2 = s.psgFreq2
  /\ psgEnv1 = s.psgEnv1
  /\ psgEnv2 = s.psgEnv2
  /\ introAnimFrame = s.introAnimFrame
  /\ melodyIndex = s.melodyIndex
  /\ bassIndex = s.bassIndex
  /\ melodyCounter = s.melodyCounter
  /\ bassCounter = s.bassCounter
  /\ mazeW = s.mazeW
  /\ headFrame = s.headFrame
  /\ bodyFrame = s.bodyFrame

LateInit == \E s \in LateStates : IsState(s)

\* the lengths from which frames of play are explored: the short snakes, the
\* pickups that change frameDelay (scores 50 and 250) and one that does not,
\* a snake long enough to run into itself, the last growth, the full length
PlayLengths == {1, 2, 3, 4, 7, 27, 32, 74, 79, 80}

\* games from the start and games in progress
PlayInit ==
  \/ Init
  \/ \E s \in LateStates : s.snakeLength \in PlayLengths /\ IsState(s)

PlaySpec == PlayInit /\ [][Next]_vars

\* one tick of a game in progress and the teardown that follows a collision
TeardownStep ==
  \/ GameOverStart
  \/ GameOverBody
  \/ GameOverHead
  \/ GameOverFood
  \/ GameOverTune
  \/ GameOverEnd

TeardownNext == PlayingTick \/ GameOverFrame \/ TeardownStep

\* the program keeps running: a teardown that can make a step makes it
TeardownSpec == LateInit /\ [][TeardownNext]_vars /\ WF_vars(TeardownStep)

(* --------------------- games in progress, with sound ------------------- *)
\* n calls of updateMusic in unpaused frames of play with the music on
RECURSIVE MusicFrames(_, _)
\* (the first half of the calls, then the rest; the test on the record of
\* the first half holds always and has TLC compute that record once)
MusicFrames(s, n) ==
  IF n = 0 THEN s
  ELSE IF n = 1 THEN sequencerStep(s)
  ELSE LET t == MusicFrames(s, n \div 2)
       IN  IF t.melodyIndex < MELODY_SIZE
             THEN MusicFrames(t, n - (n \div 2))
             ELSE t

\* the lengths from which the sound of a game in progress is followed: one
\* or two for every value of frameDelay (8 down to 3)
TempoLengths == {3, 7, 12, 17, 22, 27}

\* The tick that changes frameDelay to d can fall in the frame in which both
\* tunes end a cycle (the player chooses when to eat), so that the frames
\* that follow play both tunes from their first notes at the tempo of d.
\* The numbers of frames played since, in a state whose next frame ticks:
\* one less than a multiple of d, up to the longest cycle of the melody
\* (10 frames for each of its notes on average).
TempoPhases(d) == { k * d - 1 : k \in 1..((10 * MELODY_SIZE) \div d) }

\* the program start, or a game in progress whose sequencer has run since
\* that tick
TempoInit ==
  \/ Init
  \/ \E s \in LateStates :
       /\ s.snakeLength \in TempoLengths
       /\ \E n \in TempoPhases(s.frameDelay) : IsState(MusicFrames(s, n))

\* the frames of the intro and of a game, as long as it is played
TempoNext == MusicIntroFrame \/ MusicPlayingFrame

TempoSpec == TempoInit /\ [][TempoNext]_vars

(* ------------------------- a long game in progress --------------------- *)
\* A snake of the maximum length keeps eating: its length stays 80 and every
\* pickup adds 10 to the score.  The state of such a game after 999 pickups,
\* with two ticks to go.
LongGameInit ==
  \E b \in BOOLEAN :
    IsState([LateState(SNAKE_MAX_LENGTH, b) EXCEPT
               !.score = 9990,
               !.ticks = MaxTicks - 2])

\* the frames of that game and the teardown that follows its collision (the
\* body loop of 79 iterations plays the tune to its end, so the loop that
\* finishes the tune has no iteration)
LongGameNext ==
  \/ PlayingFrame
  \/ PlayingTick
  \/ GameOverFrame
  \/ GameOverStart
  \/ GameOverBody
  \/ GameOverHead
  \/ GameOverFood
  \/ GameOverEnd

LongGameSpec == LongGameInit /\ [][LongGameNext]_vars

(* ===================== properties of the game ========================== *)
(* The properties below are stated on the variables alone.  The cells and  *)
(* tests they use are written out here, independently of the operators    *)
(* that model the code.                                                    *)

DX(d) == IF d = DIR_RIGHT THEN 1 ELSE IF d = DIR_LEFT THEN -1 ELSE 0
DY(d) == IF d = DIR_DOWN THEN 1 ELSE IF d = DIR_UP THEN -1 ELSE 0
Opposite(d) == (d + 2) % 4

LiveCells == { snakeBody[i] : i \in 1..snakeLength }
WallCells == { mazeWalls[i] : i \in 1..wallCount }
AllBodyHandlesNull == \A i \in 0..(SNAKE_MAX_LENGTH - 2) : spriteBody[i] = NULL

\* the step is a frame in which updateGame ran
TickStep == gameState = STATE_PLAYING /\ ticks' = ticks + 1

\* the candidate head cell of a tick step: the head plus the unit vector of
\* the direction the tick applies (the buffered direction after the frame's
\* input, which the tick stores in direction)
Candidate == << snakeBody[1][1] + DX(direction'), snakeBody[1][2] + DY(direction') >>

OnBorder(c) == c[1] <= 0 \/ c[1] >= 39 \/ c[2] <= 1 \/ c[2] >= 27

\* the candidate is on the border, on a wall cell or on a cell of body
\* segment 1..N-1 as they lie before the tick
CandidateBlocked ==
  \/ OnBorder(Candidate)
  \/ Candidate \in WallCells
  \/ \E i \in 2..snakeLength : snakeBody[i] = Candidate

\* the tick asks for a body sprite (length below the maximum, above 1, slot
\* of the old tail unbound) and SPR_addSprite returns null
GrowthAllocationFails ==
  /\ TickStep
  /\ ~CandidateBlocked
  /\ Candidate = food
  /\ snakeLength < SNAKE_MAX_LENGTH
  /\ snakeLength > 1
  /\ spriteBody[snakeLength - 2] = NULL
  /\ spriteBody'[snakeLength - 2] = NULL

\* a Start press edge is sampled in the step
StartEdge == ~prevStartState /\ prevStartState'

(* -------------------------------- C1 ----------------------------------- *)
\* C1: in every state with mode PLAYING the live snake cells
\* snakeBody[0..snakeLength-1] are pairwise distinct.
C1_LiveCellsDistinct ==
  gameState = STATE_PLAYING =>
    \A i, j \in 1..snakeLength : i # j => snakeBody[i] # snakeBody[j]

(* -------------------------------- C2 ----------------------------------- *)
\* C2: a tick whose candidate head cell is on the border, on a maze wall or on
\* a cell of body segment 1..N-1 (positions before the shift, tail included)
\* sets the mode to GAME_OVER and changes none of snake cells, length, score,
\* food cell and frameDelay; the teardown the tick goes on with changes none
\* of them either.
C2_CollisionEndsGame ==
  [][ /\ (TickStep /\ CandidateBlocked) =>
           /\ gameState' = STATE_GAMEOVER
           /\ UNCHANGED << snakeBody, snakeLength, score, food, frameDelay >>
      /\ pc # "main" =>
           /\ gameState' = STATE_GAMEOVER
           /\ UNCHANGED << snakeBody, snakeLength, score, food, frameDelay >>
    ]_vars

\* a collision has just been detected and the cell the head was sent to is
\* the cell of the tail
C2_TailHit ==
  /\ pc = "go_start"
  /\ gameState = STATE_GAMEOVER
  /\ snakeLength > 2
  /\ << snakeBody[1][1] + DX(direction), snakeBody[1][2] + DY(direction) >>
       = snakeBody[snakeLength]

(* -------------------------------- C3 ----------------------------------- *)
\* C3: while the mode is PLAYING the food cell is no live snake cell (head
\* included) and no maze-wall cell.
C3_FoodOffSnakeAndWalls ==
  gameState = STATE_PLAYING => food \notin (LiveCells \union WallCells)

(* -------------------------------- C4 ----------------------------------- *)
\* C4: a tick in which the body-sprite allocation of a growth fails leaves
\* the length as it was, leaves every handle as it was and leaves the mode
\* PLAYING.
C4_FailedGrowthKeepsLength ==
  [][ GrowthAllocationFails =>
        /\ snakeLength' = snakeLength
        /\ UNCHANGED << spriteHead, spriteBody, spriteFood >>
        /\ gameState' = STATE_PLAYING
    ]_vars

(* -------------------------------- C5 ----------------------------------- *)
\* the D-pad button that asks for direction d
Button(d) ==
  IF d = DIR_UP THEN "UP" ELSE IF d = DIR_RIGHT THEN "RIGHT"
  ELSE IF d = DIR_DOWN THEN "DOWN" ELSE "LEFT"

\* C5: the direction a tick applies is never the opposite of the direction
\* applied before it, whatever D-pad samples the frames in between read; and
\* a frame whose sample asks for the opposite of the current direction leaves
\* the buffered direction unchanged.
C5_NoReversal ==
  [][ /\ TickStep => direction' # Opposite(direction)
      /\ gameState = STATE_PLAYING =>
           \A j \in JoyInputs :
             (j = {Button(Opposite(direction))} /\ FrameOn(j)) =>
               nextDirection' = nextDirection
    ]_vars

\* two ticks have run, the snake heads up and a turn to the left is buffered
\* for the next tick
C5_TurnBuffered ==
  /\ gameState = STATE_PLAYING
  /\ ticks >= 2
  /\ direction = DIR_UP
  /\ nextDirection = DIR_LEFT

(* -------------------------------- C6 ----------------------------------- *)
\* C6: a tick whose candidate head cell is the food cell, with the length
\* below 80 and no failed allocation, makes the length one greater, the body
\* the new head followed by all previous cells in their order, the score 10
\* higher (16-bit), and the food a cell chosen among the interior cells that
\* held no wall and no snake cell when the tick began.
C6_PickupGrows ==
  [][ ( /\ TickStep
        /\ ~CandidateBlocked
        /\ Candidate = food
        /\ snakeLength < 80
        /\ ~GrowthAllocationFails )
      => /\ snakeLength' = snakeLength + 1
         /\ snakeBody' = << Candidate >> \o snakeBody
         /\ score' = (score + 10) % 65536
         /\ food'[1] \in 1..38 /\ food'[2] \in 2..26
         /\ food' \notin (LiveCells \union WallCells)
         /\ gameState' = STATE_PLAYING
    ]_vars

\* the example of the claim: (20,14),(19,14),(18,14) moved RIGHT onto food
\* at (21,14)
C6_FirstPickup ==
  /\ gameState = STATE_PLAYING
  /\ ticks = 1
  /\ snakeLength = 4
  /\ snakeBody = << <<21, 14>>, <<20, 14>>, <<19, 14>>, <<18, 14>> >>
  /\ score = 10

(* -------------------------------- C7 ----------------------------------- *)
\* every interior cell holds a wall or a snake cell
BoardFull ==
  \A x \in 1..38 : \A y \in 2..26 : <<x, y>> \in (LiveCells \union WallCells)

\* C7: the mode starts at INTRO and changes only INTRO -> PLAYING in a frame
\* with a Start press edge, PLAYING -> GAME_OVER in a tick (collision, or
\* pickup on a full board), GAME_OVER -> INTRO in a frame with a Start press
\* edge.
C7_ModeTransitions ==
  /\ gameState = STATE_INTRO
  /\ [][ gameState' # gameState =>
           \/ /\ gameState = STATE_INTRO
              /\ gameState' = STATE_PLAYING
              /\ StartEdge
           \/ /\ gameState = STATE_PLAYING
              /\ gameState' = STATE_GAMEOVER
              /\ TickStep
              /\ CandidateBlocked \/ (Candidate = food /\ BoardFull)
           \/ /\ gameState = STATE_GAMEOVER
              /\ gameState' = STATE_INTRO
              /\ StartEdge
       ]_vars

\* the intro is shown again after a game (the maze of that game is still
\* stored)
C7_BackToIntro ==
  /\ gameState = STATE_INTRO
  /\ wallCount > 0
  /\ spriteHead = NULL

(* -------------------------------- C8 ----------------------------------- *)
\* C8: updateGame runs in a frame only if the incremented frame counter has
\* reached frameDelay and paused is false after the frame's input; a frame
\* that ends with mode PLAYING and paused set changes none of snake cells,
\* length, direction, buffered direction, score, food cell and frameDelay.
C8_PauseFreezesGame ==
  [][ /\ TickStep => (frameCount + 1 >= frameDelay /\ ~paused')
      /\ (gameState' = STATE_PLAYING /\ paused') =>
           UNCHANGED << snakeBody, snakeLength, direction, nextDirection,
                        score, food, frameDelay >>
    ]_vars

\* a paused game whose frame counter has reached frameDelay
C8_PausedWhenDue ==
  /\ gameState = STATE_PLAYING
  /\ paused
  /\ frameCount >= frameDelay
  /\ ticks >= 1

(* -------------------------------- C9 ----------------------------------- *)
\* C9: during the teardown a body handle is released only when every body
\* handle of higher index is null and the head and food handles are still
\* bound; the head handle only when every body handle is null and the food
\* handle is still bound; the food handle only when the head handle is null;
\* and when the teardown ends every handle is null and none is allocated.
C9_ReleaseOrder ==
  [][ pc # "main" =>
        /\ \A i \in 0..78 :
             (spriteBody[i] # NULL /\ spriteBody'[i] = NULL) =>
               /\ \A k \in (i + 1)..78 : spriteBody[k] = NULL
               /\ spriteHead # NULL /\ spriteHead' # NULL
               /\ spriteFood # NULL /\ spriteFood' # NULL
        /\ (spriteHead # NULL /\ spriteHead' = NULL) =>
             /\ AllBodyHandlesNull
             /\ spriteFood # NULL /\ spriteFood' # NULL
        /\ (spriteFood # NULL /\ spriteFood' = NULL) =>
             /\ AllBodyHandlesNull
             /\ spriteHead = NULL
        /\ pc' = "main" =>
             /\ spriteHead' = NULL
             /\ spriteFood' = NULL
             /\ \A i \in 0..78 : spriteBody'[i] = NULL
             /\ allocated' = {}
    ]_vars

\* half-way through the teardown of a snake of 80 cells: the handles of
\* segments 41 and up are released, those below are still bound
C9_HalfReleased ==
  /\ pc = "go_body"
  /\ snakeLength = 80
  /\ goI = 40
  /\ spriteBody[40] = NULL
  /\ spriteBody[39] # NULL
  /\ spriteHead # NULL
  /\ spriteFood # NULL

(* -------------------------------- C10 ---------------------------------- *)
\* C10: every change of the mode from PLAYING to GAME_OVER enters
\* showGameOver; showGameOver, once entered, ends; each of its steps that
\* starts a note starts the next note of the tune, and it ends with all 5
\* started; from its entry to its end the state written from controller
\* samples (previous Start and B, music switch, pause, buffered direction)
\* does not change.
C10_TeardownCompletes ==
  /\ (pc = "go_start") ~> (pc = "main" /\ gameState = STATE_GAMEOVER)
  /\ [][ /\ (gameState = STATE_PLAYING /\ gameState' = STATE_GAMEOVER) =>
              pc' = "go_start"
         /\ (pc \in {"go_body", "go_food", "go_tune"} /\ pc' # "main") =>
              \/ tuneIndex' = tuneIndex /\ psgFreq1' = psgFreq1
              \/ /\ tuneIndex' = tuneIndex + 1
                 /\ tuneIndex' <= 5
                 /\ psgFreq1' = gameOverTune[tuneIndex'][1]
         /\ (pc # "main" /\ pc' = "main") => tuneIndex = 5
         /\ pc # "main" =>
              UNCHANGED << prevStartState, prevBState, musicEnabled, paused,
                           nextDirection >>
       ]_vars

\* the teardown of a snake of one cell (no body sprite to release) has ended
C10_ShortSnakeDone ==
  /\ pc = "main"
  /\ gameState = STATE_GAMEOVER
  /\ snakeLength = 1
  /\ allocated = {}

(* -------------------------------- C11 ---------------------------------- *)
\* the handles bound to the sprite variables, and the number of variables
\* that hold one
BoundHandles ==
  ({spriteHead, spriteFood} \union { spriteBody[i] : i \in 0..78 }) \ {NULL}
BoundCount ==
  (IF spriteHead # NULL THEN 1 ELSE 0) + (IF spriteFood # NULL THEN 1 ELSE 0)
    + Cardinality({ i \in 0..78 : spriteBody[i] # NULL })

\* C11: no handle is released twice.  Every non-null sprite variable holds a
\* handle that is allocated, no two variables hold the same handle and no
\* other handle is allocated (so initGame's cleanup, which releases the
\* non-null variables, releases each allocated handle once); a teardown step
\* releases exactly the handles of the variables it sets to null, and a
\* teardown step whose variable is already null changes no handle.
C11_NoDoubleRelease ==
  /\ [](allocated = BoundHandles /\ Cardinality(allocated) = BoundCount)
  /\ [][ pc # "main" =>
           /\ allocated' \subseteq allocated
           /\ allocated \ allocated' = BoundHandles \ BoundHandles'
           /\ (pc = "go_body" /\ goI > 0 /\ spriteBody[goI - 1] = NULL) =>
                UNCHANGED << spriteHead, spriteBody, spriteFood, allocated >>
           /\ (pc = "go_body" /\ goI = 0 /\ spriteHead = NULL) =>
                UNCHANGED << spriteHead, spriteBody, spriteFood, allocated >>
           /\ (pc = "go_food" /\ spriteFood = NULL) =>
                UNCHANGED << spriteHead, spriteBody, spriteFood, allocated >>
       ]_vars

\* the teardown is about to release the slot of the last segment, which was
\* never bound
C11_NullSlotInTeardown ==
  /\ pc = "go_body"
  /\ goI > 0
  /\ goI = snakeLength - 1
  /\ spriteBody[goI - 1] = NULL
  /\ allocated # {}

(* -------------------------------- C12 ---------------------------------- *)
\* C12: at every point of a game the number of free cells that food
\* placement enumerates, plus wallCount, plus the snake length, is the number
\* of interior cells, 38 x 25 = 950.
C12_CellAccounting ==
  gameState = STATE_PLAYING =>
    Len(freeTiles(State)) + wallCount + snakeLength = 950

(* -------------------------------- C13 ---------------------------------- *)
\* C13: a tick in which a snake of 80 cells moves onto the food keeps the
\* length at 80, moves the body as a plain move does (new head, then the
\* previous cells without the tail) and asks for no sprite: no handle
\* variable and no allocation changes.
C13_PickupAtMaxLength ==
  [][ ( /\ TickStep
        /\ ~CandidateBlocked
        /\ Candidate = food
        /\ snakeLength = 80 )
      => /\ snakeLength' = 80
         /\ snakeBody' = << Candidate >> \o SubSeq(snakeBody, 1, 79)
         /\ UNCHANGED << spriteHead, spriteBody, spriteFood, allocated >>
         /\ gameState' = STATE_PLAYING
    ]_vars

\* a snake of 80 cells, all sprites bound, has eaten the food at (38, 2)
C13_AteAtMaxLength ==
  /\ gameState = STATE_PLAYING
  /\ snakeLength = 80
  /\ snakeBody[1] = <<38, 2>>
  /\ snakeBody[80] = <<35, 4>>
  /\ score = 790

(* -------------------------------- C14 ---------------------------------- *)
\* C14: in every state of a started game, 3 <= snakeLength <= 80, whatever
\* the sprite allocations of initGame and of growth return.
C14_LengthRange ==
  gameState # STATE_INTRO => (3 <= snakeLength /\ snakeLength <= 80)

(* -------------------------------- C15 ---------------------------------- *)
\* C15: no wall cell stored by maze generation is one of the cells the snake
\* is placed on, (20,14), (19,14) and (18,14).
C15_WallsOffStartCells ==
  WallCells \intersect { <<20, 14>>, <<19, 14>>, <<18, 14>> } = {}

(* -------------------------------- C16 ---------------------------------- *)
\* C16 is about food placement on a board without a free cell.  No state of
\* a game is such a board: the snake blocks at most 79 cells and the maze at
\* most 10 x 5, so food placement always lists at least 950 - 129 cells.
C16_FreeCellsRemain ==
  gameState = STATE_PLAYING => Len(freeTiles(State)) >= 950 - 79 - 50

(* -------------------------------- C17 ---------------------------------- *)
\* the step performs a Start action: it starts a game, toggles the pause or
\* returns to the intro
StartAction ==
  \/ gameState = STATE_INTRO /\ gameState' = STATE_PLAYING
  \/ gameState = STATE_PLAYING /\ paused' # paused
  \/ gameState = STATE_GAMEOVER /\ gameState' = STATE_INTRO

\* C17: a Start action happens only in a frame that samples Start pressed
\* after a sample with Start released (or after none), and it leaves Start
\* recorded as pressed; a frame that samples Start pressed while it is
\* recorded as pressed performs no Start action; the record returns to
\* released only in a frame that samples Start released, in every mode.
C17_StartEdgeOnly ==
  [][ /\ StartAction => (~prevStartState /\ prevStartState')
      /\ \A j \in JoyInputs :
           ("START" \in j /\ FrameOn(j)) =>
             /\ prevStartState'
             /\ prevStartState => ~StartAction
      /\ (prevStartState /\ ~prevStartState') =>
           \E j \in JoyInputs : "START" \notin j /\ FrameOn(j)
    ]_vars

\* a paused game with Start still recorded as pressed: the press that paused
\* it is being held
C17_StartHeldInPause ==
  /\ gameState = STATE_PLAYING
  /\ paused
  /\ prevStartState
  /\ frameCount >= 3

(* -------------------------------- C18 ---------------------------------- *)
\* C18: from the start of a game on, frameDelay lies between MIN_DELAY and
\* INITIAL_DELAY; in a step of a game (playing or game over) it stays or
\* drops by exactly one, and it drops only in a simulation tick.
C18_DelayRange ==
  /\ [](gameState # STATE_INTRO =>
          (MIN_DELAY <= frameDelay /\ frameDelay <= INITIAL_DELAY))
  /\ [][ gameState # STATE_INTRO =>
           /\ frameDelay' \in {frameDelay, frameDelay - 1}
           /\ frameDelay' # frameDelay => TickStep
       ]_vars

\* the pickup at score 300 has just happened with frameDelay already at its
\* floor
C18_FloorKept ==
  /\ gameState = STATE_PLAYING
  /\ score = 300
  /\ frameDelay = MIN_DELAY
  /\ snakeBody[1] = <<38, 2>>

(* -------------------------------- C19 ---------------------------------- *)
\* C19: at the end of every frame that leaves a paused game or the mode
\* game over, the envelopes of PSG channels 1 and 2 are PSG_ENVELOPE_MIN,
\* and no step that ends in a paused game or in game over changes
\* melodyIndex, bassIndex, melodyCounter or bassCounter.
C19_SilentWhenStopped ==
  /\ []((pc = "main" /\ (\/ gameState = STATE_GAMEOVER
                         \/ gameState = STATE_PLAYING /\ paused))
          => (psgEnv1 = PSG_ENVELOPE_MIN /\ psgEnv2 = PSG_ENVELOPE_MIN))
  /\ [][ (\/ gameState' = STATE_GAMEOVER
          \/ gameState' = STATE_PLAYING /\ paused')
           => UNCHANGED << melodyIndex, bassIndex, melodyCounter, bassCounter >>
       ]_vars

\* a game with the music on, paused in the middle of the second melody note
C19_PausedMidNote ==
  /\ gameState = STATE_PLAYING
  /\ paused
  /\ musicEnabled
  /\ melodyIndex = 2
  /\ melodyCounter > 0
  /\ psgFreq1 = NOTE_E4
  /\ psgEnv1 = PSG_ENVELOPE_MIN

(* -------------------------------- C20 ---------------------------------- *)
\* C20: musicEnabled changes only in a frame that starts in the intro and
\* samples B pressed after B released, or in a frame that enters the intro
\* from game over, which leaves it TRUE (so a frame that starts in play or in
\* game over never switches the music off); and at the end of every frame
\* with musicEnabled FALSE in the intro or in play, the envelopes of PSG
\* channels 1 and 2 are PSG_ENVELOPE_MIN.
C20_MusicToggle ==
  /\ []((pc = "main" /\ ~musicEnabled
           /\ gameState \in {STATE_INTRO, STATE_PLAYING})
          => (psgEnv1 = PSG_ENVELOPE_MIN /\ psgEnv2 = PSG_ENVELOPE_MIN))
  /\ [][ musicEnabled' # musicEnabled =>
           \/ gameState = STATE_INTRO /\ ~prevBState /\ prevBState'
           \/ /\ gameState = STATE_GAMEOVER
              /\ gameState' = STATE_INTRO
              /\ musicEnabled'
       ]_vars

(* -------------------------------- C21 ---------------------------------- *)
\* the session state initGame and startGame leave in record t
FreshSession(t) ==
  /\ t.gameState = STATE_PLAYING
  /\ t.score = 0
  /\ t.snakeLength <= SNAKE_START_LENGTH
  /\ t.snakeLength = SNAKE_START_LENGTH =>
       SubSeq(t.snakeBody, 1, 3) = << <<20, 14>>, <<19, 14>>, <<18, 14>> >>
  /\ t.direction = DIR_RIGHT
  /\ t.nextDirection = DIR_RIGHT
  /\ t.frameDelay = INITIAL_DELAY
  /\ t.frameCount = 0
  /\ ~t.paused
  /\ t.melodyIndex = 0 /\ t.bassIndex = 0
  /\ t.melodyCounter = 0 /\ t.bassCounter = 0

\* C21: in every state of the intro, whatever the game before left in the
\* statics, startGame returns score 0, the snake (20,14),(19,14),(18,14) of
\* length 3 (shorter only after a failed allocation), both directions RIGHT,
\* frameDelay 8, frameCount 0, paused FALSE and the sequencer at 0; and the
\* frame that goes from the intro to play ends with these values of score,
\* snake, direction, frameDelay and paused, the frame counter having counted
\* that frame (the D-pad chain of that frame runs after startGame).
C21_FreshSession ==
  /\ []((gameState = STATE_INTRO /\ pc = "main")
          => \A t \in startGame(State) : FreshSession(t))
  /\ [][ (gameState = STATE_INTRO /\ gameState' = STATE_PLAYING) =>
           /\ score' = 0
           /\ snakeLength' <= SNAKE_START_LENGTH
           /\ snakeLength' = SNAKE_START_LENGTH =>
                snakeBody' = << <<20, 14>>, <<19, 14>>, <<18, 14>> >>
           /\ direction' = DIR_RIGHT
           /\ frameDelay' = INITIAL_DELAY
           /\ frameCount' = 1
           /\ ~paused'
       ]_vars

\* a new game of three cells at its first frame, begun with the statics of a
\* finished game of the fastest speed
C21_AfterFastGame ==
  /\ gameState = STATE_INTRO
  /\ frameDelay = MIN_DELAY
  /\ snakeLength > SNAKE_START_LENGTH
  /\ direction # DIR_RIGHT
  /\ \E t \in startGame(State) : t.snakeLength = SNAKE_START_LENGTH

(* -------------------------------- C22 ---------------------------------- *)
\* C22: while the mode is PLAYING, every live body cell is one step (one
\* cell in one axis) from the live cell before it.
C22_SegmentsAdjacent ==
  gameState = STATE_PLAYING =>
    \A i \in 2..snakeLength :
      LET dx == snakeBody[i - 1][1] - snakeBody[i][1]
          dy == snakeBody[i - 1][2] - snakeBody[i][2]
      IN  (IF dx < 0 THEN -dx ELSE dx) + (IF dy < 0 THEN -dy ELSE dy) = 1

(* -------------------------------- C23 ---------------------------------- *)
\* the tick is a pickup, and it brings the score to a multiple of 50 (the
\* fifth pickup since the last change of speed)
Pickup == TickStep /\ score' = (score + 10) % U16
TargetReached == Pickup /\ score' % 50 = 0

C25_TeardownNextFrame ==
  /\ [][ (TickStep /\ Candidate \in WallCells) => gameState' = STATE_GAMEOVER ]_vars
  /\ [][ ~(allocated \subseteq allocated') =>
           (pc = "main" /\ gameState # STATE_PLAYING) ]_vars

\* the part of C25 about the mode: a tick whose head moves onto a wall cell
\* ends in the mode game over, with the program in showGameOver
C25_WallHitEndsGame ==
  [][ (TickStep /\ Candidate \in WallCells) =>
        (gameState' = STATE_GAMEOVER /\ pc' = "go_start") ]_vars

(* -------------------------------- C26 ---------------------------------- *)
\* the tick completes a pickup: the head moves onto the food cell, nothing
\* blocks it and the growth gets its sprite
PickupCompleted ==
  TickStep /\ ~CandidateBlocked /\ Candidate = food /\ ~GrowthAllocationFails

\* C26: in a game the score is a multiple of 10 that grows by 10 in the
\* ticks that complete a pickup and in no other step, and frameDelay is
\* max(3, 8 - score \div 50).
C26_ScoreAndSpeed ==
  /\ [](gameState # STATE_INTRO =>
          /\ score % 10 = 0
          /\ frameDelay = (IF 8 - (score \div 50) > 3 THEN 8 - (score \div 50)
                           ELSE 3))
  /\ [][ /\ PickupCompleted => score' = score + 10
         /\ (gameState # STATE_INTRO /\ gameState' # STATE_INTRO
               /\ ~PickupCompleted) => score' = score
       ]_vars

\* the pickup that brought the score to 250 has lowered frameDelay to 3
C26_FloorReached ==
  /\ gameState = STATE_PLAYING
  /\ score = 250
  /\ frameDelay = MIN_DELAY
  /\ snakeBody[1] = <<38, 2>>

(* -------------------------------- C27 ---------------------------------- *)
\* the cells the step appends to mazeWalls
NewWallCells == SubSeq(mazeWalls', wallCount + 1, wallCount')

\* C27: the maze loop runs its 10 iterations (the cap on wallCount never
\* cuts it short), every iteration stores a straight horizontal or vertical
\* run of at most 5 consecutive cells (at least 2: one cell of a run of 3 to
\* 5 can be the skipped start cell), every stored cell has 2 <= x <= 37 and
\* 3 <= y <= 25, and wallCount is the number of stored cells, at most 50.
C27_MazeShape ==
  /\ [](/\ wallCount = Len(mazeWalls)
        /\ wallCount <= 5 * mazeW
        /\ wallCount <= 50
        /\ mazeW <= numWalls
        /\ mazeW < numWalls => wallCount < MAX_WALLS * 5
        /\ \A c \in WallCells : 2 <= c[1] /\ c[1] <= 37 /\ 3 <= c[2] /\ c[2] <= 25)
  /\ [][ mazeW' = mazeW + 1 =>
           /\ wallCount' - wallCount \in 2..5
           /\ SubSeq(mazeWalls', 1, wallCount) = mazeWalls
           /\ \/ \A k \in 2..Len(NewWallCells) :
                   /\ NewWallCells[k][2] = NewWallCells[1][2]
                   /\ NewWallCells[k][1] = NewWallCells[k - 1][1] + 1
              \/ \A k \in 2..Len(NewWallCells) :
                   /\ NewWallCells[k][1] = NewWallCells[1][1]
                   /\ NewWallCells[k][2] = NewWallCells[k - 1][2] + 1
       ]_vars

\* the loop is over with a maze that has a cell in the last column and a cell
\* in the last row the draws can reach, and a run cut to 2 cells by the skip
C27_TenSegments ==
  /\ mazeW = numWalls
  /\ <<37, 25>> \in WallCells
  /\ <<2, 3>> \in WallCells
  /\ <<19, 14>> \in WallCells
  /\ wallCount < 30

(* -------------------------------- C28 ---------------------------------- *)
\* C28: drawGame never passes a null handle to SPR_setPosition or
\* SPR_setFrame: whenever a frame ends with drawGame, the head handle (and
\* every handle drawGame uses) is not null; in particular the frame of a
\* collision does not end with drawGame.
C28_NoDrawOnNullHead ==
  [][ DrawGameRuns => NULL \notin drawGameHandles' ]_vars

(* -------------------------------- C29 ---------------------------------- *)
\* every live body segment i in 1..snakeLength-1 has a handle in
\* spriteBody[i-1]
AllSegmentsBound ==
  \A i \in 1..(snakeLength - 1) : spriteBody[i - 1] # NULL

\* C29: as long as SPR_addSprite returns no null, every live body segment
\* has a sprite after every tick in PLAYING: a game that starts with its
\* three cells has them bound, and a tick that starts with at least three
\* cells, every segment bound, and gets no null from SPR_addSprite ends with
\* every segment bound.
C29_EverySegmentDrawn ==
  /\ [][ (gameState = STATE_INTRO /\ gameState' = STATE_PLAYING
            /\ snakeLength' = SNAKE_START_LENGTH) => AllSegmentsBound' ]_vars
  /\ [][ (TickStep /\ gameState' = STATE_PLAYING /\ AllSegmentsBound
            /\ snakeLength >= SNAKE_START_LENGTH
            /\ ~GrowthAllocationFails) => AllSegmentsBound' ]_vars

(* -------------------------------- C30 ---------------------------------- *)
\* C30: the mode becomes game over only in a tick that goes on in
\* showGameOver (the branch of generateFood for a board without a free cell
\* is never taken); at every end of a frame in the mode game over
\* spriteHead, spriteFood and every spriteBody entry are null and the sprite
\* engine holds no handle of the game; and the frame that shows the intro
\* again starts and ends with no handle allocated.
C30_NoSpriteAfterGameOver ==
  /\ []((pc = "main" /\ gameState = STATE_GAMEOVER) =>
          /\ spriteHead = NULL
          /\ spriteFood = NULL
          /\ AllBodyHandlesNull
          /\ allocated = {})
  /\ [][ (gameState # STATE_GAMEOVER /\ gameState' = STATE_GAMEOVER) =>
           (TickStep /\ pc' = "go_start") ]_vars
  /\ [][ (gameState = STATE_GAMEOVER /\ gameState' = STATE_INTRO) =>
           (allocated = {} /\ allocated' = {}) ]_vars

\* the teardown of a snake of the maximum length is over and the frame has
\* ended
C30_LongSnakeGone ==
  /\ pc = "main"
  /\ gameState = STATE_GAMEOVER
  /\ snakeLength = SNAKE_MAX_LENGTH
  /\ allocated = {}


(* -------------------------------- C31 ---------------------------------- *)
\* C31: at the end of every frame in the mode PLAYING, paused or not,
\* frameCount is below frameDelay; and updateGame does not run in the frame
\* in which the pause is released.
C31_CounterBelowDelay ==
  /\ []((pc = "main" /\ gameState = STATE_PLAYING) =>
          (0 <= frameCount /\ frameCount < frameDelay))
  /\ [][ (gameState = STATE_PLAYING /\ paused /\ ~paused') => ~TickStep ]_vars


(* -------------------------------- C32 ---------------------------------- *)
\* C32: while the mode is PLAYING and paused is false the frame counter
\* counts the frames since the last tick and stays below frameDelay: an
\* unpaused frame of play without a tick adds exactly one to frameCount, a
\* frame with a tick leaves it 0, and a frame whose counter reaches
\* frameDelay with paused false after the input runs updateGame.  Hence a
\* tick occurs at the latest in the frameDelay-th frame after the last one.
C32_TickWithinDelay ==
  /\ []((pc = "main" /\ gameState = STATE_PLAYING /\ ~paused) =>
          frameCount < frameDelay)
  /\ [][ /\ TickStep => frameCount' = 0
         /\ ( /\ pc = "main"
              /\ gameState = STATE_PLAYING
              /\ ~paused /\ ~paused'
              /\ ~TickStep ) =>
               /\ frameCount' = frameCount + 1
               /\ frameCount' < frameDelay
               /\ frameDelay' = frameDelay
    ]_vars

\* a game at the highest speed: a tick of this run has reset the counter and
\* the frames since have brought it to one below frameDelay
C32_LastFrameBeforeTick ==
  /\ pc = "main"
  /\ gameState = STATE_PLAYING
  /\ ~paused
  /\ ticks > MaxTicks - LateTicks
  /\ frameDelay = MIN_DELAY
  /\ frameCount = frameDelay - 1


(* -------------------------------- C33 ---------------------------------- *)
\* the cells inside the border: columns 1..38, rows 2..26
Interior(c) == 1 <= c[1] /\ c[1] <= 38 /\ 2 <= c[2] /\ c[2] <= 26

\* C33: while the mode is PLAYING the head cell is inside the border and is
\* no maze-wall cell, and the food cell is inside the border.
C33_HeadAndFoodInside ==
  gameState = STATE_PLAYING =>
    /\ Interior(snakeBody[1])
    /\ snakeBody[1] \notin WallCells
    /\ Interior(food)

\* a tick of this run has moved the head into the corner of the interior,
\* between the top and the right border, and the game goes on
C33_HeadInCorner ==
  /\ gameState = STATE_PLAYING
  /\ pc = "main"
  /\ ticks > MaxTicks - LateTicks
  /\ snakeBody[1] = <<38, 2>>


Tempo(d) == IF (d * 10) \div 8 > 6 THEN (d * 10) \div 8 ELSE 6
NoteFrames(base, factor) == (base * factor) \div 10
BaseDurations ==
  { melody[i][2] : i \in 1..MELODY_SIZE } \union { bass[i][2] : i \in 1..BASS_SIZE }

\* a step in which the melody channel, or the bass channel, starts a note
MelodyStarts == melodyIndex' = (melodyIndex + 1) % MELODY_SIZE
BassStarts == bassIndex' = (bassIndex + 1) % BASS_SIZE

\* C35: in a game the tempo factor of updateMusic is max(frameDelay * 10 / 8,
\* 6), a value in 6..10, and in the intro it is 12, which a note that starts
\* in a frame of the intro is loaded with; a melody or bass note
\* that starts in a frame of play is loaded with base * factor / 10 frames
\* for the frameDelay the frame leaves, which is at least 4; and when a step
\* lowers frameDelay, no note gets more frames than before.
C35_TempoFollowsSpeed ==
  /\ []((gameState = STATE_PLAYING /\ pc = "main") =>
          /\ tempoFactor(State) = Tempo(frameDelay)
          /\ 6 <= tempoFactor(State) /\ tempoFactor(State) <= 10)
  /\ [](gameState = STATE_INTRO => tempoFactor(State) = 12)
  /\ [][ (gameState = STATE_INTRO /\ gameState' = STATE_INTRO
            /\ MelodyStarts) =>
           melodyCounter' =
             NoteFrames(introMelody[melodyIndex + 1][2], 12) - 1 ]_vars
  /\ [][ (gameState' = STATE_PLAYING /\ pc' = "main") =>
           /\ MelodyStarts =>
                /\ melodyCounter' =
                     NoteFrames(melody[melodyIndex + 1][2], Tempo(frameDelay')) - 1
                /\ melodyCounter' + 1 >= 4
           /\ BassStarts =>
                /\ bassCounter' =
                     NoteFrames(bass[bassIndex + 1][2], Tempo(frameDelay')) - 1
                /\ bassCounter' + 1 >= 4
           /\ frameDelay' < frameDelay =>
                \A b \in BaseDurations :
                  NoteFrames(b, tempoFactor(State')) <=
                    NoteFrames(b, tempoFactor(State))
       ]_vars

\* at the highest speed the melody has reached one of its long notes, which
\* was loaded with 9 frames
C35_LongNoteAtTopSpeed ==
  /\ gameState = STATE_PLAYING
  /\ ticks > MaxTicks - LateTicks
  /\ frameDelay = MIN_DELAY
  /\ melodyIndex = 4
  /\ melodyCounter = 8


(* -------------------------------- C36 ---------------------------------- *)
\* the head frame of a direction
HeadFrameOf(d) ==
  IF d = DIR_DOWN THEN 0
  ELSE IF d = DIR_RIGHT THEN 1
  ELSE IF d = DIR_UP THEN 2
  ELSE 3

\* C36: after a frame in which drawGame has run, a head sprite has the frame
\* of the direction the last tick applied (DOWN 0, RIGHT 1, UP 2, LEFT 3),
\* and the sprite of every bound slot i - 1 has frame 0 if segments i - 1 and
\* i differ in x, else frame 1 if they differ in y, else the frame it had
\* before.
C36_FramesFollowShape ==
  [][ DrawGameRuns =>
        /\ spriteHead' # NULL => headFrame' = HeadFrameOf(direction')
        /\ \A i \in 1..(snakeLength' - 1) :
             spriteBody'[i - 1] # NULL =>
               LET dx == snakeBody'[i][1] - snakeBody'[i + 1][1]
                   dy == snakeBody'[i][2] - snakeBody'[i + 1][2]
               IN  bodyFrame'[i - 1] =
                     IF dx # 0 THEN 0
                     ELSE IF dy # 0 THEN 1
                     ELSE bodyFrame[i - 1]
    ]_vars

\* the snake has turned upward and its first body segment, which has a
\* sprite, lies below the head
C36_TurnedUp ==
  /\ gameState = STATE_PLAYING
  /\ pc = "main"
  /\ direction = DIR_UP
  /\ headFrame = 2
  /\ snakeLength >= SNAKE_START_LENGTH
  /\ spriteBody[0] # NULL
  /\ bodyFrame[0] = 1
  /\ bodyFrame[1] = 0


(* -------------------------------- C37 ---------------------------------- *)
\* C37 as stated: snakeLength is 0 in no reachable state.
C37_LengthNeverZero == snakeLength >= 1

\* C37, from the first game on: once a game has been started snakeLength is in 1..SNAKE_MAX_LENGTH
\* and the snake holds that many cells (indices 0..79 of snakeBody);
\* wallCount never exceeds the 250 entries of mazeWalls; spriteBody has the
\* slots 0..78 and the loop of showGameOver starts at an index i in 0..79
\* (so i - 1 is at most 78, and i is no wrapped value); and the free tiles
\* generateFood collects are at most the 950 entries of its array.
C37_IndicesInRange ==
  /\ gameState # STATE_INTRO =>
       /\ 1 <= snakeLength /\ snakeLength <= SNAKE_MAX_LENGTH
       /\ Len(snakeBody) = snakeLength
  /\ wallCount <= MAX_WALLS * 5
  /\ Len(mazeWalls) = wallCount
  /\ DOMAIN spriteBody = 0..(SNAKE_MAX_LENGTH - 2)
  /\ pc = "go_body" => (0 <= goI /\ goI <= SNAKE_MAX_LENGTH - 1)
  /\ gameState = STATE_PLAYING =>
       Len(freeTiles(State)) <= (GRID_WIDTH - 2) * (GRID_HEIGHT - 3)

\* the teardown of a snake of the maximum length starts its loop at the last
\* index
C37_LongestTeardownStarts ==
  /\ pc = "go_body"
  /\ snakeLength = SNAKE_MAX_LENGTH
  /\ goI = SNAKE_MAX_LENGTH - 1
  /\ spriteBody[SNAKE_MAX_LENGTH - 2] = NULL


(* -------------------------------- C38 ---------------------------------- *)
\* a frame in which updateMusic runs the sequencer: the music is on and the
\* frame ends in the intro or in a game that is not paused
SequencerRuns ==
  /\ pc = "main" /\ pc' = "main"
  /\ musicEnabled'
  /\ gameState' = STATE_INTRO \/ (gameState' = STATE_PLAYING /\ ~paused')

\* the note a channel is playing: the one before its index
PlayingMelodyNote ==
  (IF gameState = STATE_INTRO THEN introMelody ELSE melody)
    [((melodyIndex + MELODY_SIZE - 1) % MELODY_SIZE) + 1]
PlayingBassNote == bass[((bassIndex + BASS_SIZE - 1) % BASS_SIZE) + 1]

\* C38: melodyIndex stays in 0..15 and bassIndex in 0..7, and each counter
\* stays below the number of frames of the note its channel is playing (at
\* the slowest tempo of the mode, which no loaded duration exceeds).  In a
\* frame that runs the sequencer a channel whose counter is 0 (after the
\* reset of a frame that starts a game or shows the intro) loads the next
\* note of the tune of the mode with base * factor / 10 frames, which is at
\* least 1, and ends the frame one below it; a channel whose counter is not
\* 0 ends the frame one lower.  So no counter is decremented at 0.
C38_CountersNeverWrap ==
  /\ [](/\ 0 <= melodyIndex /\ melodyIndex <= MELODY_SIZE - 1
        /\ 0 <= bassIndex /\ bassIndex <= BASS_SIZE - 1
        /\ 0 <= melodyCounter
        /\ melodyCounter <
             NoteFrames(PlayingMelodyNote[2],
                        IF gameState = STATE_INTRO THEN 12 ELSE 10)
        /\ 0 <= bassCounter
        /\ bassCounter <
             NoteFrames(PlayingBassNote[2],
                        IF gameState = STATE_INTRO THEN 12 ELSE 10))
  /\ [][ SequencerRuns =>
           LET restart == gameState' # gameState
               factor == IF gameState' = STATE_INTRO
                           THEN 12 ELSE Tempo(frameDelay')
               tune == IF gameState' = STATE_INTRO THEN introMelody ELSE melody
               mi == IF restart THEN 0 ELSE melodyIndex
               mc == IF restart THEN 0 ELSE melodyCounter
               bi == IF restart THEN 0 ELSE bassIndex
               bc == IF restart THEN 0 ELSE bassCounter
           IN  /\ IF mc = 0
                    THEN /\ NoteFrames(tune[mi + 1][2], factor) >= 1
                         /\ melodyCounter' = NoteFrames(tune[mi + 1][2], factor) - 1
                         /\ melodyIndex' = (mi + 1) % MELODY_SIZE
                    ELSE /\ melodyCounter' = mc - 1
                         /\ melodyIndex' = mi
               /\ IF bc = 0
                    THEN /\ NoteFrames(bass[bi + 1][2], factor) >= 1
                         /\ bassCounter' = NoteFrames(bass[bi + 1][2], factor) - 1
                         /\ bassIndex' = (bi + 1) % BASS_SIZE
                    ELSE /\ bassCounter' = bc - 1
                         /\ bassIndex' = bi
       ]_vars

\* the intro is shown again after a game (the snake of that game is still
\* in the statics) and the frame that showed it has started the intro tune
\* from its first note
C38_IntroTuneRestarted ==
  /\ gameState = STATE_INTRO
  /\ snakeLength >= 1
  /\ musicEnabled
  /\ melodyIndex = 1
  /\ melodyCounter = 8
  /\ psgFreq1 = NOTE_E4
  /\ bassIndex = 1


(* -------------------------------- C39 ---------------------------------- *)
\* the characters sprintf writes for "%d" of a 16-bit score
DecimalDigits(n) ==
  IF n < 10 THEN 1
  ELSE IF n < 100 THEN 2
  ELSE IF n < 1000 THEN 3
  ELSE IF n < 10000 THEN 4
  ELSE 5

\* C39: when showGameOver starts, and in the mode game over, the decimal
\* text of the score and its terminator fit the 5 bytes of scoreText: the
\* score is at most 9999.
C39_ScoreFitsBuffer ==
  (pc = "go_start" \/ gameState = STATE_GAMEOVER) =>
    /\ DecimalDigits(score) + 1 <= 5
    /\ score <= 9999

====
